---------------------------- MODULE Spec2Model ----------------------------
(***************************************************************************)
(* Model of aptly's published-repository code (debian/publish.go):         *)
(*   - NewPublishedRepo: prefix normalisation, source-graph walk and       *)
(*     distribution/component guessing;                                    *)
(*   - PublishedRepoCollection: Add / Update / Remove / reload from DB,    *)
(*     with the shared-prefix clean-up of RemoveFiles;                     *)
(*   - PublishedRepo.Publish: index files, checksums and Release.          *)
(*                                                                         *)
(* Strings are sequences of tokens.  A token stands for a fixed non-empty  *)
(* byte string without '/' (except the token "/" itself); the tokens have  *)
(* pairwise different first bytes, so the token sequence of a string is    *)
(* unique and byte-wise comparison is token-wise comparison.               *)
(***************************************************************************)
EXTENDS Naturals, Sequences, FiniteSets, TLC

-----------------------------------------------------------------------------
(* Strings                                                                 *)

\* The empty Go string.
Empty == <<>>

\* A one-token string.
S(t) == <<t>>

\* The place of each token among the tokens in byte-wise (ASCII) order, the
\* key of byte-wise comparison.
Rank(t) ==
  CASE t = " "          -> 1
    [] t = "."          -> 2
    [] t = ".bz2"       -> 3
    [] t = ".gpg"       -> 4
    [] t = ".gz"        -> 5
    [] t = "/"          -> 6
    [] t = ">"          -> 7
    [] t = "InRelease"  -> 8
    [] t = "Packages"   -> 9
    [] t = "Release"    -> 10
    [] t = "Sources"    -> 11
    [] t = "U"          -> 12
    [] t = "all"        -> 13
    [] t = "amd64"      -> 14
    [] t = "bar"        -> 15
    [] t = "binary-"    -> 16
    [] t = "contrib"    -> 17
    [] t = "dists"      -> 18
    [] t = "foo"        -> 19
    [] t = "i386"       -> 20
    [] t = "jessie"     -> 21
    [] t = "main"       -> 22
    [] t = "pool"       -> 23
    [] t = "source"     -> 24
    [] t = "updates"    -> 25
    [] t = "wheezy"     -> 26

\* Go's s < t on strings (byte-wise lexicographic order).
RECURSIVE StrLess(_, _)
StrLess(s, t) ==
  IF t = <<>> THEN FALSE
  ELSE IF s = <<>> THEN TRUE
  ELSE IF Head(s) = Head(t) THEN StrLess(Tail(s), Tail(t))
  ELSE Rank(Head(s)) < Rank(Head(t))

\* strings.HasPrefix(s, "/") and strings.HasSuffix(s, "/").
HasPrefixSlash(s) == Len(s) > 0 /\ s[1] = "/"
HasSuffixSlash(s) == Len(s) > 0 /\ s[Len(s)] = "/"

\* strings.Split(s, "/"): the segments between slashes ("" gives one empty
\* segment).
RECURSIVE SplitSlash(_)
SplitSlash(s) ==
  IF \A i \in 1..Len(s) : s[i] # "/" THEN <<s>>
  ELSE LET i == CHOOSE k \in 1..Len(s) :
                  s[k] = "/" /\ \A j \in 1..(k - 1) : s[j] # "/"
       IN  <<SubSeq(s, 1, i - 1)>> \o SplitSlash(SubSeq(s, i + 1, Len(s)))

\* strings.Join(segs, "/").
RECURSIVE JoinSlash(_)
JoinSlash(segs) ==
  IF segs = <<>> THEN <<>>
  ELSE IF Len(segs) = 1 THEN segs[1]
  ELSE segs[1] \o <<"/">> \o JoinSlash(Tail(segs))

Dot    == <<".">>
DotDot == <<".", ".">>

\* The element loop of filepath.Clean: out is the stack of kept elements.
RECURSIVE CleanFold(_, _, _)
CleanFold(segs, out, rooted) ==
  IF segs = <<>> THEN out
  ELSE LET seg == Head(segs)
           rest == Tail(segs)
       IN  IF seg = <<>> \/ seg = Dot THEN CleanFold(rest, out, rooted)
           ELSE IF seg = DotDot
             THEN IF out # <<>> /\ out[Len(out)] # DotDot
                    THEN CleanFold(rest, SubSeq(out, 1, Len(out) - 1), rooted)
                  ELSE IF ~rooted
                    THEN CleanFold(rest, Append(out, DotDot), rooted)
                  ELSE CleanFold(rest, out, rooted)
           ELSE CleanFold(rest, Append(out, seg), rooted)

\* filepath.Clean (Unix separator).
Clean(path) ==
  IF path = <<>> THEN Dot
  ELSE LET rooted == HasPrefixSlash(path)
           out    == CleanFold(SplitSlash(path), <<>>, rooted)
       IN  IF rooted THEN <<"/">> \o JoinSlash(out)
           ELSE IF out = <<>> THEN Dot
           ELSE JoinSlash(out)

\* filepath.Join: the non-empty elements joined by '/' and cleaned; "" when
\* every element is empty.
Join(elems) ==
  LET nonEmpty == SelectSeq(elems, LAMBDA e : e # <<>>)
  IN  IF nonEmpty = <<>> THEN <<>> ELSE Clean(JoinSlash(nonEmpty))

\* sort.Strings, as an insertion sort.
RECURSIVE InsertSorted(_, _)
InsertSorted(x, s) ==
  IF s = <<>> THEN <<x>>
  ELSE IF StrLess(Head(s), x) THEN <<Head(s)>> \o InsertSorted(x, Tail(s))
  ELSE <<x>> \o s

RECURSIVE SortStrings(_)
SortStrings(s) ==
  IF s = <<>> THEN <<>> ELSE InsertSorted(Head(s), SortStrings(Tail(s)))

\* All sequences over A of length at most n.
RECURSIVE SeqUpTo(_, _)
SeqUpTo(A, n) ==
  IF n = 0 THEN {<<>>}
  ELSE LET shorter == SeqUpTo(A, n - 1)
       IN  shorter \cup {Append(s, a) : s \in shorter, a \in A}

Range(f) == {f[i] : i \in DOMAIN f}

-----------------------------------------------------------------------------
(* State                                                                   *)

VARIABLES
  \* NewPublishedRepo: arguments
  prefix, distribution, component, architectures, source, collectionFactory,
  \* NewPublishedRepo: locals of the source-graph walk, and what it returns
  current, rootComponents, rootDistributions, result, err, pc,
  \* PublishedRepoCollection: the in-memory list and the key-value store
  list, db,
  \* number of PublishedRepo objects constructed so far (the next UUID)
  nextUUID,
  \* the last call on the collection: its arguments, what it computed, the
  \* RemoveDirs calls it made on the published storage, and its error
  call,
  \* Publish: the receiver p, the package list of its source and the signer
  pub, pkgList, signer,
  \* Publish: the published storage (path -> directory or file content)
  publishedStorage,
  \* Publish: locals (generatedFiles, the index of the architecture loop),
  \* the step it is at and the error it returned
  generatedFiles, archIndex, ppc, perr

newVars == <<prefix, distribution, component, architectures, source,
             collectionFactory, current, rootComponents, rootDistributions,
             result, err, pc>>

collectionVars == <<list, db, nextUUID, call>>

publishVars == <<pub, pkgList, signer, publishedStorage, generatedFiles,
                 archIndex, ppc, perr>>

vars == <<newVars, collectionVars, publishVars>>

\* Go's nil.
Nil == [nil |-> TRUE]

\* No call on the collection has been made: the state of a collection over
\* an empty store.
NoCall ==
  [op |-> "none", repo |-> Nil, prefix |-> Empty, distribution |-> Empty,
   position |-> 0, removePrefix |-> FALSE, removePoolComponent |-> FALSE,
   removed |-> <<>>, err |-> ""]

CollectionIdle ==
  /\ list = <<>>
  /\ db = <<>>
  /\ nextUUID = 1
  /\ call = NoCall

\* No Publish is in progress, on an empty published storage.
PublishIdle ==
  /\ pub = Nil
  /\ pkgList = <<>>
  /\ signer = FALSE
  /\ publishedStorage = <<>>
  /\ generatedFiles = <<>>
  /\ archIndex = 0
  /\ ppc = "idle"
  /\ perr = ""

\* No construction is in progress.
NewIdle ==
  /\ prefix = Empty
  /\ distribution = Empty
  /\ component = Empty
  /\ architectures = <<>>
  /\ source = Nil
  /\ collectionFactory = Nil
  /\ current = <<>>
  /\ rootComponents = <<>>
  /\ rootDistributions = <<>>
  /\ result = Nil
  /\ err = <<>>
  /\ pc = "idle"

-----------------------------------------------------------------------------
(* NewPublishedRepo                                                        *)

\* The three kinds of entity the walk meets, as one record shape; a field an
\* entity does not have is left empty.
Snapshot(uuid, kind, ids) ==
  [type |-> "snapshot", UUID |-> uuid, SourceKind |-> kind, SourceIDs |-> ids,
   DefaultDistribution |-> Empty, DefaultComponent |-> Empty,
   Distribution |-> Empty, Components |-> <<>>]

LocalRepo(uuid, dist, comp) ==
  [type |-> "local", UUID |-> uuid, SourceKind |-> "", SourceIDs |-> <<>>,
   DefaultDistribution |-> dist, DefaultComponent |-> comp,
   Distribution |-> Empty, Components |-> <<>>]

RemoteRepo(uuid, dist, comps) ==
  [type |-> "remote", UUID |-> uuid, SourceKind |-> "", SourceIDs |-> <<>>,
   DefaultDistribution |-> Empty, DefaultComponent |-> Empty,
   Distribution |-> dist, Components |-> comps]

\* CleanPrefix without the second Clean.
CleanPrefixOnce(p) ==
  LET p1 == Clean(p)
      p2 == IF HasPrefixSlash(p1) THEN Tail(p1) ELSE p1
  IN  IF HasSuffixSlash(p2) THEN SubSeq(p2, 1, Len(p2) - 1) ELSE p2

\* The prefix after cleaning: Clean, strip one leading and one trailing
\* slash, Clean again.
CleanPrefix(p) ==
  LET p1 == Clean(p)
      p2 == IF HasPrefixSlash(p1) THEN Tail(p1) ELSE p1
      p3 == IF HasSuffixSlash(p2) THEN SubSeq(p2, 1, Len(p2) - 1) ELSE p2
  IN  Clean(p3)

\* The loop over strings.Split(prefix, "/") that rejects a prefix.
InvalidPrefix(p) ==
  \E i \in DOMAIN SplitSlash(p) :
     LET part == SplitSlash(p)[i]
     IN  part = DotDot \/ part = S("dists") \/ part = S("pool")

\* FoundSources that stops at the first UUID that is not found.
RECURSIVE FoundSourcesStopAtMissing(_, _, _)
FoundSourcesStopAtMissing(kind, ids, factory) ==
  IF ids = <<>> THEN <<>>
  ELSE LET uuid == Head(ids)
           coll == IF kind = "repo" THEN factory.remotes
                   ELSE IF kind = "local" THEN factory.locals
                   ELSE IF kind = "snapshot" THEN factory.snapshots
                   ELSE <<>>
       IN  IF uuid \in DOMAIN coll
             THEN <<coll[uuid]>>
                  \o FoundSourcesStopAtMissing(kind, Tail(ids), factory)
             ELSE <<>>

\* The entities a snapshot's SourceIDs push on the frontier: each UUID is
\* looked up in the collection its SourceKind names, a UUID that is not found
\* is skipped.
RECURSIVE FoundSources(_, _, _)
FoundSources(kind, ids, factory) ==
  IF ids = <<>> THEN <<>>
  ELSE LET uuid == Head(ids)
           coll == IF kind = "repo" THEN factory.remotes
                   ELSE IF kind = "local" THEN factory.locals
                   ELSE IF kind = "snapshot" THEN factory.snapshots
                   ELSE <<>>
           rest == FoundSources(kind, Tail(ids), factory)
       IN  IF uuid \in DOMAIN coll THEN <<coll[uuid]>> \o rest ELSE rest

\* What a local repo root adds to rootDistributions / rootComponents.
LocalDistributions(repo) ==
  IF repo.DefaultDistribution # Empty THEN <<repo.DefaultDistribution>> ELSE <<>>
LocalComponents(repo) ==
  IF repo.DefaultComponent # Empty THEN <<repo.DefaultComponent>> ELSE <<>>

\* RemoteDistributions that adds the distribution also when it is empty.
RemoteDistributionsAlways(repo) == <<repo.Distribution>>

\* What a remote repo root adds to rootDistributions / rootComponents.
RemoteDistributions(repo) ==
  IF repo.Distribution # Empty THEN <<repo.Distribution>> ELSE <<>>
RemoteComponents(repo) == repo.Components

\* GuessDistribution without sort.Strings.
GuessDistributionUnsorted(roots) ==
  IF Len(roots) > 0 /\ roots[1] = roots[Len(roots)]
    THEN [ok |-> TRUE, value |-> roots[1]]
    ELSE [ok |-> FALSE, value |-> Empty]

\* The guess of the distribution from the collected rootDistributions.
GuessDistribution(roots) ==
  LET sorted == SortStrings(roots)
  IN  IF Len(sorted) > 0 /\ sorted[1] = sorted[Len(sorted)]
        THEN [ok |-> TRUE, value |-> sorted[1]]
        ELSE [ok |-> FALSE, value |-> Empty]

\* GuessComponent adopting the first collected component.
GuessComponentFirst(roots) ==
  IF Len(roots) > 0 THEN SortStrings(roots)[1] ELSE S("main")

\* The guess of the component from the collected rootComponents.
GuessComponent(roots) ==
  LET sorted == SortStrings(roots)
  IN  IF Len(sorted) > 0 /\ sorted[1] = sorted[Len(sorted)]
        THEN sorted[1]
        ELSE S("main")

ErrInvalidPrefix(p) == <<"invalid prefix", p>>
ErrGuessDistribution ==
  <<"unable to guess distribution name, please specify explicitly">>
NoError == <<>>

\* The entity under construction; UUID stands for uuid.New().
NewEntity(p, d, c) ==
  [UUID |-> "new", Prefix |-> p, Distribution |-> d, Component |-> c,
   Architectures |-> architectures,
   SourceKind |-> IF source.type = "snapshot" THEN "snapshot" ELSE "local",
   SourceUUID |-> source.UUID]

\* Entry: source kind, prefix check, and either the direct return or the
\* start of the walk.
NewPublishedRepo ==
  /\ pc = "new"
  /\ UNCHANGED <<collectionVars, publishVars>>
  /\ LET p == CleanPrefix(prefix)
     IN  IF InvalidPrefix(p)
           THEN /\ err' = ErrInvalidPrefix(p)
                /\ result' = Nil
                /\ pc' = "done"
                /\ UNCHANGED <<current, rootComponents, rootDistributions>>
         ELSE IF component = Empty \/ distribution = Empty
           THEN /\ current' = <<source>>
                /\ rootComponents' = <<>>
                /\ rootDistributions' = <<>>
                /\ pc' = "walk"
                /\ UNCHANGED <<result, err>>
         ELSE /\ result' = NewEntity(p, distribution, component)
              /\ err' = NoError
              /\ pc' = "done"
              /\ UNCHANGED <<current, rootComponents, rootDistributions>>
  /\ UNCHANGED <<prefix, distribution, component, architectures, source,
                 collectionFactory>>

\* One iteration of "for len(current) > 0".
WalkStep ==
  /\ pc = "walk"
  /\ current # <<>>
  /\ UNCHANGED <<collectionVars, publishVars>>
  /\ LET head == Head(current)
         rest == Tail(current)
     IN  IF head.type = "snapshot"
           THEN /\ current' = rest \o FoundSources(head.SourceKind,
                                                   head.SourceIDs,
                                                   collectionFactory)
                /\ UNCHANGED <<rootComponents, rootDistributions>>
         ELSE IF head.type = "local"
           THEN /\ current' = rest
                /\ rootDistributions' =
                     rootDistributions \o LocalDistributions(head)
                /\ rootComponents' = rootComponents \o LocalComponents(head)
         ELSE /\ current' = rest
              /\ rootDistributions' =
                   rootDistributions \o RemoteDistributions(head)
              /\ rootComponents' = rootComponents \o RemoteComponents(head)
  /\ UNCHANGED <<prefix, distribution, component, architectures, source,
                 collectionFactory, result, err, pc>>

\* After the walk: guess what was not given, store and return.
GuessAndReturn ==
  /\ pc = "walk"
  /\ current = <<>>
  /\ UNCHANGED <<collectionVars, publishVars>>
  /\ LET gd == IF distribution = Empty
                 THEN GuessDistribution(rootDistributions)
                 ELSE [ok |-> TRUE, value |-> distribution]
         gc == IF component = Empty
                 THEN GuessComponent(rootComponents)
                 ELSE component
     IN  IF ~gd.ok
           THEN /\ err' = ErrGuessDistribution
                /\ result' = Nil
         ELSE /\ result' = NewEntity(CleanPrefix(prefix), gd.value, gc)
              /\ err' = NoError
  /\ pc' = "done"
  /\ UNCHANGED <<prefix, distribution, component, architectures, source,
                 collectionFactory, current, rootComponents,
                 rootDistributions>>

\* Inputs of NewPublishedRepo.
MaxPrefixLen == 5
MaxSourceIDs == 2

PrefixTokens == {"/", ".", "foo", "bar", "dists", "pool"}
RawPrefixes == SeqUpTo(PrefixTokens, MaxPrefixLen)

Wheezy  == S("wheezy")
Jessie  == S("jessie")
Main    == S("main")
Contrib == S("contrib")

\* A function on the UUIDs for which opt is not Nil.
Collection(opt) == [u \in {v \in DOMAIN opt : opt[v] # Nil} |-> opt[u]]

RemoteRepos ==
  {Collection(<<r1, r2>>) :
     r1 \in {RemoteRepo(1, d, cs) :
               d \in {Empty, Wheezy},
               cs \in {<<>>, <<Main>>, <<Main, Contrib>>, <<Empty>>}},
     r2 \in {Nil, RemoteRepo(2, Wheezy, <<Main>>),
             RemoteRepo(2, Jessie, <<Contrib>>)}}

LocalRepos ==
  {Collection(<<l1>>) :
     l1 \in {LocalRepo(1, Wheezy, Main), LocalRepo(1, Empty, Empty),
             LocalRepo(1, Jessie, Contrib)}}

Snapshots ==
  {Collection(<<s1, s2>>) :
     s1 \in {Snapshot(1, "repo", <<1, 2>>), Snapshot(1, "local", <<1>>),
             Snapshot(1, "snapshot", <<2>>)},
     s2 \in {Nil, Snapshot(2, "repo", <<2, 1>>)}}

Factories ==
  [remotes : RemoteRepos, locals : LocalRepos, snapshots : Snapshots]

Sources ==
  {Snapshot(0, k, ids) : k \in {"repo", "local", "snapshot"},
                         ids \in SeqUpTo({1, 2}, MaxSourceIDs)}
  \cup {LocalRepo(0, d, c) : d \in {Empty, Wheezy}, c \in {Empty, Main}}

NoFactory == [remotes |-> <<>>, locals |-> <<>>, snapshots |-> <<>>]

\* Every raw prefix with a few sources, and every source graph with one
\* prefix.
InitNew ==
  /\ \/ /\ prefix \in RawPrefixes
        /\ distribution \in {Empty, Wheezy}
        /\ component \in {Empty, Main}
        /\ source = LocalRepo(0, Wheezy, Contrib)
        /\ collectionFactory = NoFactory
     \/ /\ prefix = S("foo")
        /\ distribution \in {Empty, Jessie}
        /\ component \in {Empty, Contrib}
        /\ source \in Sources
        /\ collectionFactory \in Factories
  /\ architectures = <<>>
  /\ current = <<>>
  /\ rootComponents = <<>>
  /\ rootDistributions = <<>>
  /\ result = Nil
  /\ err = NoError
  /\ pc = "new"
  /\ CollectionIdle
  /\ PublishIdle

NextNew ==
  \/ NewPublishedRepo
  \/ WalkStep
  \/ GuessAndReturn

SpecNew == InitNew /\ [][NextNew]_vars

\* Every source graph, with one prefix.
InitWalk == InitNew /\ prefix = S("foo")

\* The walk is a loop of sequential code: while the frontier is not empty the
\* next iteration runs.
SpecNewFair == InitWalk /\ [][NextNew]_vars /\ WF_vars(WalkStep)

-----------------------------------------------------------------------------
(* PublishedRepo: key, encoding, RemoveFiles                               *)

\* PublishedRepo.Key: "U" + Prefix + ">>" + Distribution.
Key(p) == <<"U">> \o p.Prefix \o <<">", ">">> \o p.Distribution

\* PublishedRepo.Encode: the exported fields, SourceUUID under the name
\* SnapshotUUID.
Encode(p) ==
  [UUID |-> p.UUID, Prefix |-> p.Prefix, Distribution |-> p.Distribution,
   Component |-> p.Component, Architectures |-> p.Architectures,
   SourceKind |-> p.SourceKind, SnapshotUUID |-> p.SourceUUID]

\* Decode that reads the source UUID from a field named SourceUUID, which
\* Encode does not write under that name.
DecodeSourceUUIDField(blob) ==
  [UUID |-> blob.UUID, Prefix |-> blob.Prefix,
   Distribution |-> blob.Distribution, Component |-> blob.Component,
   Architectures |-> blob.Architectures,
   SourceKind |-> IF blob.SourceKind = "" THEN "snapshot" ELSE blob.SourceKind,
   SourceUUID |-> IF "SourceUUID" \in DOMAIN blob THEN blob.SourceUUID ELSE 0]

\* PublishedRepo.Decode into a new PublishedRepo: an empty SourceKind is
\* read as "snapshot".

Decode(blob) ==
  [UUID |-> blob.UUID, Prefix |-> blob.Prefix,
   Distribution |-> blob.Distribution, Component |-> blob.Component,
   Architectures |-> blob.Architectures,
   SourceKind |-> IF blob.SourceKind = "" THEN "snapshot" ELSE blob.SourceKind,
   SourceUUID |-> blob.SnapshotUUID]

\* RemoveFiles with the non-prefix branch removing all of <Prefix>/dists.
RemoveFilesWholeDists(p, removePrefix, removePoolComponent) ==
  IF removePrefix
    THEN <<Join(<<p.Prefix, S("dists")>>), Join(<<p.Prefix, S("pool")>>)>>
    ELSE <<Join(<<p.Prefix, S("dists")>>)>>
         \o IF removePoolComponent
              THEN <<Join(<<p.Prefix, S("pool"), p.Component>>)>>
              ELSE <<>>

\* RemoveFiles whose prefix branch also looks at removePoolComponent.
RemoveFilesPoolComponentToo(p, removePrefix, removePoolComponent) ==
  (IF removePrefix
     THEN <<Join(<<p.Prefix, S("dists")>>), Join(<<p.Prefix, S("pool")>>)>>
     ELSE <<Join(<<p.Prefix, S("dists"), p.Distribution>>)>>)
  \o IF removePoolComponent
       THEN <<Join(<<p.Prefix, S("pool"), p.Component>>)>>
       ELSE <<>>

\* PublishedRepo.RemoveFiles: the directories it passes to RemoveDirs, in
\* order, when no call fails.
RemoveFiles(p, removePrefix, removePoolComponent) ==
  IF removePrefix
    THEN <<Join(<<p.Prefix, S("dists")>>), Join(<<p.Prefix, S("pool")>>)>>
    ELSE <<Join(<<p.Prefix, S("dists"), p.Distribution>>)>>
         \o IF removePoolComponent
              THEN <<Join(<<p.Prefix, S("pool"), p.Component>>)>>
              ELSE <<>>

-----------------------------------------------------------------------------
(* PublishedRepoCollection                                                 *)

\* database.Storage: Put, Delete and FetchByPrefix on a map from keys to
\* blobs.
Put(store, key, blob) ==
  [k \in DOMAIN store \cup {key} |-> IF k = key THEN blob ELSE store[k]]

Delete(store, key) == [k \in DOMAIN store \ {key} |-> store[k]]

\* The keys of a set in ascending byte order.
RECURSIVE SortedKeys(_)
SortedKeys(keys) ==
  IF keys = {} THEN <<>>
  ELSE LET least == CHOOSE k \in keys :
                       \A other \in keys \ {k} : StrLess(k, other)
       IN  <<least>> \o SortedKeys(keys \ {least})

FetchByPrefix(store, first) ==
  LET keys == SortedKeys({k \in DOMAIN store : Len(k) > 0 /\ k[1] = first})
  IN  [i \in 1..Len(keys) |-> store[keys[i]]]

\* CheckDuplicate that also compares Component.
CheckDuplicateComponent(l, repo) ==
  IF \E i \in DOMAIN l : /\ l[i].Prefix = repo.Prefix
                         /\ l[i].Distribution = repo.Distribution
                         /\ l[i].Component = repo.Component
    THEN CHOOSE i \in DOMAIN l :
           /\ l[i].Prefix = repo.Prefix
           /\ l[i].Distribution = repo.Distribution
           /\ l[i].Component = repo.Component
    ELSE 0

\* CheckDuplicate: the position of the first entry with repo's Prefix and
\* Distribution, 0 for nil.
CheckDuplicate(l, repo) ==
  IF \E i \in DOMAIN l : /\ l[i].Prefix = repo.Prefix
                         /\ l[i].Distribution = repo.Distribution
    THEN CHOOSE i \in DOMAIN l :
           /\ l[i].Prefix = repo.Prefix
           /\ l[i].Distribution = repo.Distribution
           /\ \A j \in 1..(i - 1) : ~(/\ l[j].Prefix = repo.Prefix
                                      /\ l[j].Distribution = repo.Distribution)
    ELSE 0

\* ByPrefixDistribution: the position of the first entry with this prefix
\* and distribution, 0 for "not found".
ByPrefixDistribution(l, p, d) ==
  IF \E i \in DOMAIN l : l[i].Prefix = p /\ l[i].Distribution = d
    THEN CHOOSE i \in DOMAIN l :
           /\ l[i].Prefix = p /\ l[i].Distribution = d
           /\ \A j \in 1..(i - 1) : ~(l[j].Prefix = p /\ l[j].Distribution = d)
    ELSE 0

\* RemoveScan without the "r == repo" test.
RECURSIVE RemoveScanNoSkip(_, _, _, _)
RemoveScanNoSkip(l, repoPosition, i, flags) ==
  IF i > Len(l) THEN flags
  ELSE IF l[i].Prefix = l[repoPosition].Prefix
    THEN RemoveScanNoSkip(l, repoPosition, i + 1,
           [removePrefix |-> FALSE,
            removePoolComponent |->
              /\ flags.removePoolComponent
              /\ l[i].Component # l[repoPosition].Component])
  ELSE RemoveScanNoSkip(l, repoPosition, i + 1, flags)

\* RemoveScan that never clears removePoolComponent.
RECURSIVE RemoveScanKeepsPool(_, _, _, _)
RemoveScanKeepsPool(l, repoPosition, i, flags) ==
  IF i > Len(l) THEN flags
  ELSE IF i = repoPosition
    THEN RemoveScanKeepsPool(l, repoPosition, i + 1, flags)
  ELSE IF l[i].Prefix = l[repoPosition].Prefix
    THEN RemoveScanKeepsPool(l, repoPosition, i + 1,
           [flags EXCEPT !.removePrefix = FALSE])
  ELSE RemoveScanKeepsPool(l, repoPosition, i + 1, flags)

\* The loop of Remove over the list, from entry i on: it skips the target
\* ("r == repo": the entries of the list are distinct objects, so this holds
\* at the target's position only) and clears the flags for the others.
RECURSIVE RemoveScan(_, _, _, _)
RemoveScan(l, repoPosition, i, flags) ==
  IF i > Len(l) THEN flags
  ELSE IF i = repoPosition THEN RemoveScan(l, repoPosition, i + 1, flags)
  ELSE IF l[i].Prefix = l[repoPosition].Prefix
    THEN RemoveScan(l, repoPosition, i + 1,
           [removePrefix |-> FALSE,
            removePoolComponent |->
              /\ flags.removePoolComponent
              /\ l[i].Component # l[repoPosition].Component])
  ELSE RemoveScan(l, repoPosition, i + 1, flags)

\* The flags as Remove initialises them.
InitialFlags == [removePrefix |-> TRUE, removePoolComponent |-> TRUE]

\* SwapRemove that only cuts the last slot off.
SwapRemoveCutLast(l, position) == SubSeq(l, 1, Len(l) - 1)

\* The list after Remove's three-way assignment: the last entry takes the
\* target's place and the list loses its last slot.
SwapRemove(l, position) ==
  LET last == Len(l)
      moved == [l EXCEPT ![last] = Nil, ![position] = l[last]]
  IN  SubSeq(moved, 1, last - 1)

\* Bounds and inputs of the collection.
MaxObjects == 2

Prefixes      == {Dot, S("foo")}
Distributions == {Wheezy, Jessie}
Components    == {Main, Contrib}

\* A PublishedRepo as NewPublishedRepo returns it, with the next UUID.
NewRepos ==
  {[UUID |-> nextUUID, Prefix |-> p, Distribution |-> d, Component |-> c,
    Architectures |-> <<>>, SourceKind |-> "snapshot", SourceUUID |-> 0] :
     p \in Prefixes, d \in Distributions, c \in Components}

\* NewPublishedRepoCollection: the list is what the store holds under "U".
Load ==
  /\ LET blobs == FetchByPrefix(db, "U")
     IN  list' = [i \in 1..Len(blobs) |-> Decode(blobs[i])]
  /\ call' = [NoCall EXCEPT !.op = "Load"]
  /\ UNCHANGED <<db, nextUUID>>
  /\ UNCHANGED <<newVars, publishVars>>

\* Add that appends although Put failed.
AddAppendAnyway ==
  /\ nextUUID <= MaxObjects
  /\ \E repo \in NewRepos, putFails \in BOOLEAN :
       /\ IF CheckDuplicate(list, repo) # 0
            THEN /\ call' = [NoCall EXCEPT !.op = "Add", !.repo = repo,
                                           !.err = "already exists"]
                 /\ UNCHANGED <<list, db>>
          ELSE IF putFails
            THEN /\ call' = [NoCall EXCEPT !.op = "Add", !.repo = repo,
                                           !.err = "put"]
                 /\ list' = Append(list, repo)
                 /\ UNCHANGED db
          ELSE /\ db' = Put(db, Key(repo), Encode(repo))
               /\ list' = Append(list, repo)
               /\ call' = [NoCall EXCEPT !.op = "Add", !.repo = repo]
       /\ nextUUID' = nextUUID + 1
  /\ UNCHANGED <<newVars, publishVars>>

\* Add(repo); the store's Put may fail.
AddCall(repo, putFails) ==
  IF CheckDuplicate(list, repo) # 0
    THEN /\ call' = [NoCall EXCEPT !.op = "Add", !.repo = repo,
                                   !.err = "already exists"]
         /\ UNCHANGED <<list, db>>
  ELSE IF putFails
    THEN /\ call' = [NoCall EXCEPT !.op = "Add", !.repo = repo,
                                   !.err = "put"]
         /\ UNCHANGED <<list, db>>
  ELSE /\ db' = Put(db, Key(repo), Encode(repo))
       /\ list' = Append(list, repo)
       /\ call' = [NoCall EXCEPT !.op = "Add", !.repo = repo]

\* Add(repo) for a newly constructed repo.
Add ==
  /\ nextUUID <= MaxObjects
  /\ \E repo \in NewRepos, putFails \in BOOLEAN : AddCall(repo, putFails)
  /\ nextUUID' = nextUUID + 1
  /\ UNCHANGED <<newVars, publishVars>>

\* Update(repo), for an entry of the list, a newly constructed repo, or the
\* archive p at hand.
Update ==
  /\ \E fresh \in BOOLEAN, putFails \in BOOLEAN :
       /\ fresh => nextUUID <= MaxObjects
       /\ \E repo \in IF fresh THEN NewRepos
                      ELSE Range(list) \cup ({pub} \ {Nil}) :
            /\ IF putFails
                 THEN /\ call' = [NoCall EXCEPT !.op = "Update",
                                                !.repo = repo, !.err = "put"]
                      /\ UNCHANGED db
                 ELSE /\ db' = Put(db, Key(repo), Encode(repo))
                      /\ call' = [NoCall EXCEPT !.op = "Update",
                                                !.repo = repo]
       /\ nextUUID' = IF fresh THEN nextUUID + 1 ELSE nextUUID
  /\ UNCHANGED list
  /\ UNCHANGED <<newVars, publishVars>>

\* PublishedStorage.RemoveDirs: the directory and all that is below it go.
Under(path, dir) ==
  \/ path = dir
  \/ /\ Len(path) > Len(dir) + 1
     /\ SubSeq(path, 1, Len(dir) + 1) = dir \o <<"/">>

RemoveDirs(storage, dir) ==
  [x \in {y \in DOMAIN storage : ~Under(y, dir)} |-> storage[x]]

RECURSIVE RemoveAllDirs(_, _)
RemoveAllDirs(storage, dirs) ==
  IF dirs = <<>> THEN storage
  ELSE RemoveAllDirs(RemoveDirs(storage, Head(dirs)), Tail(dirs))

\* RemoveCall with the entry taken out of the list before RemoveFiles.
RemoveCallListFirst(p, d) ==
  LET position == ByPrefixDistribution(list, p, d)
      this == [NoCall EXCEPT !.op = "Remove", !.prefix = p,
                             !.distribution = d, !.position = position]
  IN  IF position = 0
        THEN /\ call' = [this EXCEPT !.err = "not found"]
             /\ UNCHANGED <<list, db, publishedStorage>>
      ELSE
        LET repo == list[position]
            flags == RemoveScan(list, position, 1, InitialFlags)
            removePrefix == flags.removePrefix
            removePoolComponent == flags.removePoolComponent
            dirs == RemoveFiles(repo, removePrefix, removePoolComponent)
            flagged == [this EXCEPT
                          !.repo = repo,
                          !.removePrefix = removePrefix,
                          !.removePoolComponent = removePoolComponent]
        IN  \E attempted \in 1..Len(dirs), filesFail \in BOOLEAN,
               deleteFails \in BOOLEAN :
              IF filesFail
                THEN /\ call' = [flagged EXCEPT
                                   !.removed = SubSeq(dirs, 1, attempted),
                                   !.err = "remove dirs"]
                     /\ publishedStorage' =
                          RemoveAllDirs(publishedStorage,
                                        SubSeq(dirs, 1, attempted - 1))
                     /\ list' = SwapRemove(list, position)
                     /\ UNCHANGED db
              ELSE /\ attempted = Len(dirs)
                   /\ publishedStorage' = RemoveAllDirs(publishedStorage, dirs)
                   /\ list' = SwapRemove(list, position)
                   /\ IF deleteFails
                        THEN /\ call' = [flagged EXCEPT
                                           !.removed = dirs,
                                           !.err = "delete"]
                             /\ UNCHANGED db
                        ELSE /\ call' = [flagged EXCEPT !.removed = dirs]
                             /\ db' = Delete(db, Key(repo))

\* Remove(publishedStorage, prefix, distribution).  RemoveDirs and the
\* store's Delete may fail: attempted is the number of RemoveDirs calls made,
\* the last of them failing (and removing nothing) when filesFail.
RemoveCall(p, d) ==
  LET position == ByPrefixDistribution(list, p, d)
      this == [NoCall EXCEPT !.op = "Remove", !.prefix = p,
                             !.distribution = d, !.position = position]
  IN  IF position = 0
        THEN /\ call' = [this EXCEPT !.err = "not found"]
             /\ UNCHANGED <<list, db, publishedStorage>>
      ELSE
        LET repo == list[position]
            flags == RemoveScan(list, position, 1, InitialFlags)
            removePrefix == flags.removePrefix
            removePoolComponent == flags.removePoolComponent
            dirs == RemoveFiles(repo, removePrefix, removePoolComponent)
            flagged == [this EXCEPT
                          !.repo = repo,
                          !.removePrefix = removePrefix,
                          !.removePoolComponent = removePoolComponent]
        IN  \E attempted \in 1..Len(dirs), filesFail \in BOOLEAN,
               deleteFails \in BOOLEAN :
              IF filesFail
                THEN /\ call' = [flagged EXCEPT
                                   !.removed = SubSeq(dirs, 1, attempted),
                                   !.err = "remove dirs"]
                     /\ publishedStorage' =
                          RemoveAllDirs(publishedStorage,
                                        SubSeq(dirs, 1, attempted - 1))
                     /\ UNCHANGED <<list, db>>
              ELSE /\ attempted = Len(dirs)
                   /\ publishedStorage' = RemoveAllDirs(publishedStorage, dirs)
                   /\ list' = SwapRemove(list, position)
                   /\ IF deleteFails
                        THEN /\ call' = [flagged EXCEPT
                                           !.removed = dirs,
                                           !.err = "delete"]
                             /\ UNCHANGED db
                        ELSE /\ call' = [flagged EXCEPT !.removed = dirs]
                             /\ db' = Delete(db, Key(repo))

Remove ==
  /\ \E p \in Prefixes, d \in Distributions : RemoveCall(p, d)
  /\ UNCHANGED nextUUID
  /\ UNCHANGED <<pub, pkgList, signer, generatedFiles, archIndex, ppc, perr>>
  /\ UNCHANGED newVars

Init == NewIdle /\ CollectionIdle /\ PublishIdle

\* Archives as construction and Publish leave them, and records written by
\* a version that had no SourceKind (UUID 0).
ArchiveValues ==
  [UUID : {MaxObjects + 1}, Prefix : Prefixes, Distribution : Distributions,
   Component : {Main},
   Architectures : {<<>>, <<S("amd64")>>, <<S("amd64"), S("source")>>},
   SourceKind : {"snapshot", "local"}, SourceUUID : {1, 2}]

OldRecord(d) ==
  [UUID |-> 0, Prefix |-> Dot, Distribution |-> d, Component |-> Contrib,
   Architectures |-> <<S("i386")>>, SourceKind |-> "", SnapshotUUID |-> 1]

OldStores ==
  {<<>>,
   Put(<<>>, <<"U", ".", ">", ">", "wheezy">>, OldRecord(Wheezy)),
   Put(Put(<<>>, <<"U", ".", ">", ">", "wheezy">>, OldRecord(Wheezy)),
       <<"U", ".", ">", ">", "jessie">>, OldRecord(Jessie))}

\* A store, possibly with old records, and an archive p to persist; no
\* other archive is constructed.
InitStore ==
  /\ NewIdle
  /\ list = <<>>
  /\ db \in OldStores
  /\ nextUUID = MaxObjects + 1
  /\ call = NoCall
  /\ pub \in ArchiveValues
  /\ pkgList = <<>>
  /\ signer = FALSE
  /\ publishedStorage = <<>>
  /\ generatedFiles = <<>>
  /\ archIndex = 0
  /\ ppc = "idle"
  /\ perr = ""

NextStore ==
  \/ Update
  \/ Load

SpecStore == InitStore /\ [][NextStore]_vars


Next ==
  \/ Load
  \/ Add
  \/ Update
  \/ Remove

Spec == Init /\ [][Next]_vars

-----------------------------------------------------------------------------
(* Published storage, packages, checksums                                  *)

\* What a path of the published storage holds: a directory, or a file with
\* its bytes (data).
Directory == [kind |-> "dir", data |-> <<>>]
File(kind, data) == [kind |-> kind, data |-> data]

\* filepath.Dir of a cleaned path.
DirOf(path) ==
  LET segs == SplitSlash(path)
  IN  IF Len(segs) <= 1 THEN Dot
      ELSE JoinSlash(SubSeq(segs, 1, Len(segs) - 1))

\* A path and the directories above it.
Ancestors(path) ==
  LET segs == SplitSlash(path)
  IN  {JoinSlash(SubSeq(segs, 1, k)) : k \in 1..Len(segs)}

\* PublishedStorage.MkDir: the directory and the missing ones above it.
MkDir(storage, path) ==
  [x \in DOMAIN storage \cup Ancestors(path) |->
     IF x \in DOMAIN storage THEN storage[x] ELSE Directory]

\* PublishedStorage.CreateFile followed by the writes to the file.
WriteFile(storage, path, content) ==
  [x \in DOMAIN storage \cup {path} |->
     IF x = path THEN content ELSE storage[x]]

\* utils.ChecksumInfo of a file's bytes: the size and three digests, each a
\* function of all the bytes.
Size(content) ==
  IF content.kind = "text" THEN Len(content.data) ELSE Len(content.data) + 1

Checksums(content) ==
  [Size |-> Size(content), MD5 |-> <<"md5", content>>,
   SHA1 |-> <<"sha1", content>>, SHA256 |-> <<"sha256", content>>]

\* PublishedStorage.ChecksumsForFile.
ChecksumsForFile(storage, path) == Checksums(storage[path])

\* utils.CompressFile: the .gz and .bz2 siblings of a written file.
Compressed(content, how) == File(how, content.data)

\* Package.MatchesArchitecture.
MatchesArchitecture(pkg, arch) ==
  \/ pkg.Architecture = arch
  \/ pkg.Architecture = S("all") /\ arch # S("source")

\* PackageList.Architectures(true): the architectures of the packages,
\* "source" included and "all" left out.
Architectures(packages) ==
  SortedKeys({packages[i].Architecture : i \in DOMAIN packages} \ {S("all")})

\* IndexData without the WriteByte('\n') after each stanza.
RECURSIVE IndexDataNoBlankLine(_)
IndexDataNoBlankLine(packages) ==
  IF packages = <<>> THEN <<>>
  ELSE <<Head(packages).Name>> \o IndexDataNoBlankLine(Tail(packages))

\* Package.Stanza().WriteTo followed by WriteByte('\n'), for each package.
RECURSIVE IndexData(_)
IndexData(packages) ==
  IF packages = <<>> THEN <<>>
  ELSE <<Head(packages).Name, "\n">> \o IndexData(Tail(packages))

\* Package.LinkFromPool for each package: its file under
\* <prefix>/pool/<component>.
RECURSIVE LinkFromPool(_, _, _, _)
LinkFromPool(storage, packages, pfx, comp) ==
  IF packages = <<>> THEN storage
  ELSE LET poolPath == Join(<<pfx, S("pool"), comp, S(Head(packages).Name)>>)
           linked == WriteFile(MkDir(storage, DirOf(poolPath)), poolPath,
                               File("deb", <<Head(packages).Name>>))
       IN  LinkFromPool(linked, Tail(packages), pfx, comp)

\* strings.Join(names, " ").
RECURSIVE JoinSpace(_)
JoinSpace(names) ==
  IF names = <<>> THEN <<>>
  ELSE IF Len(names) = 1 THEN names[1]
  ELSE names[1] \o <<" ">> \o JoinSpace(Tail(names))

\* utils.StrSlicesSubstract(l, r): l without the elements of r.
StrSlicesSubstract(l, r) == SelectSeq(l, LAMBDA x : x \notin Range(r))

\* All orders in which a map with these keys may be iterated.
RECURSIVE Orders(_)
Orders(keys) ==
  IF keys = {} THEN {<<>>}
  ELSE UNION {{<<k>> \o rest : rest \in Orders(keys \ {k})} : k \in keys}

-----------------------------------------------------------------------------
(* PublishedRepo.Publish                                                   *)

BasePath(p) == Join(<<p.Prefix, S("dists"), p.Distribution>>)

\* The index file of an architecture, relative to BasePath.
RelativePath(p, arch) ==
  IF arch = S("source")
    THEN Join(<<p.Component, S("source"), S("Sources")>>)
    ELSE Join(<<p.Component, <<"binary-">> \o arch, S("Packages")>>)

ReleasePath(p) == Join(<<BasePath(p), S("Release")>>)

PublishFails(message) ==
  /\ perr' = message
  /\ ppc' = "failed"

\* Lines 209-217: the pool and the distribution directory.
PublishMkDirs ==
  /\ ppc = "start"
  /\ \E outcome \in {"ok", "mkdir pool", "mkdir dists"} :
       LET withPool == MkDir(publishedStorage, Join(<<pub.Prefix, S("pool")>>))
       IN  IF outcome = "mkdir pool"
             THEN /\ PublishFails("mkdir")
                  /\ UNCHANGED publishedStorage
           ELSE IF outcome = "mkdir dists"
             THEN /\ PublishFails("mkdir")
                  /\ publishedStorage' = withPool
           ELSE /\ publishedStorage' = MkDir(withPool, BasePath(pub))
                /\ ppc' = "load"
                /\ UNCHANGED perr
  /\ UNCHANGED <<pub, pkgList, signer, generatedFiles, archIndex>>
  /\ UNCHANGED <<newVars, collectionVars>>

\* ResolveArchitectures that takes the architectures of the package list
\* whatever p.Architectures holds.
ResolveArchitecturesFromList(p, packages) ==
  SortStrings(Architectures(packages))

\* The architectures Publish settles on (lines 243-251).
ResolveArchitectures(p, packages) ==
  SortStrings(IF Len(p.Architectures) = 0 THEN Architectures(packages)
                                           ELSE p.Architectures)

\* PublishLoad that goes on with an empty package list.
PublishLoadEmptyGoesOn ==
  /\ ppc = "load"
  /\ \E loadFails \in BOOLEAN :
       IF loadFails
         THEN /\ PublishFails("unable to load packages")
              /\ UNCHANGED <<pub, generatedFiles, archIndex>>
       ELSE LET archs == ResolveArchitectures(pub, pkgList)
            IN  IF Len(archs) = 0
                  THEN /\ PublishFails("unable to figure out list of architectures")
                       /\ UNCHANGED <<pub, generatedFiles, archIndex>>
                ELSE /\ pub' = [pub EXCEPT !.Architectures = archs]
                     /\ generatedFiles' = <<>>
                     /\ archIndex' = 1
                     /\ ppc' = "arch"
                     /\ UNCHANGED perr
  /\ UNCHANGED <<pkgList, signer, publishedStorage>>
  /\ UNCHANGED <<newVars, collectionVars>>

\* Lines 219-253: the packages are loaded, the architectures settled and
\* sorted.
PublishLoad ==
  /\ ppc = "load"
  /\ \E loadFails \in BOOLEAN :
       IF loadFails
         THEN /\ PublishFails("unable to load packages")
              /\ UNCHANGED <<pub, generatedFiles, archIndex>>
       ELSE IF Len(pkgList) = 0
         THEN /\ PublishFails("snapshot is empty")
              /\ UNCHANGED <<pub, generatedFiles, archIndex>>
       ELSE LET archs == ResolveArchitectures(pub, pkgList)
            IN  IF Len(archs) = 0
                  THEN /\ PublishFails("unable to figure out list of architectures")
                       /\ UNCHANGED <<pub, generatedFiles, archIndex>>
                ELSE /\ pub' = [pub EXCEPT !.Architectures = archs]
                     /\ generatedFiles' = <<>>
                     /\ archIndex' = 1
                     /\ ppc' = "arch"
                     /\ UNCHANGED perr
  /\ UNCHANGED <<pkgList, signer, publishedStorage>>
  /\ UNCHANGED <<newVars, collectionVars>>

\* Lines 260-348: one iteration of the loop over p.Architectures.  A failure
\* leaves what was done before it: processed is the number of matching
\* packages linked, written the number of stanzas that reached the file.
PublishArch ==
  /\ ppc = "arch"
  /\ LET arch == pub.Architectures[archIndex]
         relativePath == RelativePath(pub, arch)
         path == Join(<<BasePath(pub), relativePath>>)
         matching == SelectSeq(pkgList,
                               LAMBDA q : MatchesArchitecture(q, arch))
         withDir == MkDir(publishedStorage, DirOf(path))
         Written(processed, written) ==
           WriteFile(LinkFromPool(withDir, SubSeq(matching, 1, processed),
                                  pub.Prefix, pub.Component),
                     path,
                     File("text", IndexData(SubSeq(matching, 1, written))))
         plain == Written(Len(matching), Len(matching))
         withGz == WriteFile(plain, path \o <<".gz">>,
                             Compressed(plain[path], "gz"))
         withBz2 == WriteFile(withGz, path \o <<".bz2">>,
                              Compressed(plain[path], "bz2"))
     IN  \E outcome \in {"ok", "mkdir", "create", "process", "flush",
                         "compress", "checksum"} :
           \/ /\ outcome = "mkdir"
              /\ PublishFails("mkdir")
              /\ UNCHANGED <<publishedStorage, generatedFiles, archIndex>>
           \/ /\ outcome = "create"
              /\ PublishFails("unable to creates Packages file")
              /\ publishedStorage' = withDir
              /\ UNCHANGED <<generatedFiles, archIndex>>
           \/ /\ outcome = "process"
              /\ \E processed \in 0..Len(matching), written \in 0..Len(matching) :
                   /\ written <= processed
                   /\ written < Len(matching)
                   /\ publishedStorage' = Written(processed, written)
              /\ PublishFails("unable to process packages")
              /\ UNCHANGED <<generatedFiles, archIndex>>
           \/ /\ outcome = "flush"
              /\ \E written \in 0..Len(matching) :
                   publishedStorage' = Written(Len(matching), written)
              /\ PublishFails("unable to write Packages file")
              /\ UNCHANGED <<generatedFiles, archIndex>>
           \/ /\ outcome = "compress"
              /\ publishedStorage' \in {plain, withGz}
              /\ PublishFails("unable to compress Packages files")
              /\ UNCHANGED <<generatedFiles, archIndex>>
           \/ /\ outcome = "checksum"
              /\ publishedStorage' = withBz2
              /\ PublishFails("unable to collect checksums")
              /\ UNCHANGED <<generatedFiles, archIndex>>
           \/ /\ outcome = "ok"
              /\ publishedStorage' = withBz2
              /\ generatedFiles' =
                   LET keys == {relativePath, relativePath \o <<".gz">>,
                                relativePath \o <<".bz2">>}
                   IN  [k \in DOMAIN generatedFiles \cup keys |->
                          IF k \in keys
                            THEN ChecksumsForFile(withBz2,
                                                  Join(<<BasePath(pub), k>>))
                            ELSE generatedFiles[k]]
              /\ archIndex' = archIndex + 1
              /\ ppc' = IF archIndex = Len(pub.Architectures)
                          THEN "release" ELSE "arch"
              /\ UNCHANGED perr
  /\ UNCHANGED <<pub, pkgList, signer>>
  /\ UNCHANGED <<newVars, collectionVars>>

\* time.Now() at two publications.
Dates == {"Thu, 5 Nov 2026 01:00:00 UTC", "Thu, 5 Nov 2026 02:00:00 UTC"}

\* ReleaseStanza with the date also in Label.
ReleaseStanzaDatedLabel(p, generated, order, date) ==
  [Origin |-> p.Prefix \o <<" ">> \o p.Distribution,
   Label |-> p.Prefix \o <<" ">> \o p.Distribution \o <<" ", date>>,
   Codename |-> p.Distribution,
   Date |-> date,
   Components |-> p.Component,
   Architectures |->
     JoinSpace(StrSlicesSubstract(p.Architectures, <<S("source")>>)),
   Description |-> " Generated by aptly\n",
   MD5Sum |-> [i \in DOMAIN order |->
                 [hash |-> generated[order[i]].MD5,
                  size |-> generated[order[i]].Size, path |-> order[i]]],
   SHA1 |-> [i \in DOMAIN order |->
               [hash |-> generated[order[i]].SHA1,
                size |-> generated[order[i]].Size, path |-> order[i]]],
   SHA256 |-> [i \in DOMAIN order |->
                 [hash |-> generated[order[i]].SHA256,
                  size |-> generated[order[i]].Size, path |-> order[i]]]]

\* ReleaseStanza with the SHA1 section built from info.MD5.
ReleaseStanzaSha1FromMd5(p, generated, order, date) ==
  [Origin |-> p.Prefix \o <<" ">> \o p.Distribution,
   Label |-> p.Prefix \o <<" ">> \o p.Distribution,
   Codename |-> p.Distribution,
   Date |-> date,
   Components |-> p.Component,
   Architectures |->
     JoinSpace(StrSlicesSubstract(p.Architectures, <<S("source")>>)),
   Description |-> " Generated by aptly\n",
   MD5Sum |-> [i \in DOMAIN order |->
                 [hash |-> generated[order[i]].MD5,
                  size |-> generated[order[i]].Size, path |-> order[i]]],
   SHA1 |-> [i \in DOMAIN order |->
               [hash |-> generated[order[i]].MD5,
                size |-> generated[order[i]].Size, path |-> order[i]]],
   SHA256 |-> [i \in DOMAIN order |->
                 [hash |-> generated[order[i]].SHA256,
                  size |-> generated[order[i]].Size, path |-> order[i]]]]

\* The Release stanza, its checksum sections in the order the map
\* generatedFiles happened to be iterated.
ReleaseStanza(p, generated, order, date) ==
  [Origin |-> p.Prefix \o <<" ">> \o p.Distribution,
   Label |-> p.Prefix \o <<" ">> \o p.Distribution,
   Codename |-> p.Distribution,
   Date |-> date,
   Components |-> p.Component,
   Architectures |->
     JoinSpace(StrSlicesSubstract(p.Architectures, <<S("source")>>)),
   Description |-> " Generated by aptly\n",
   MD5Sum |-> [i \in DOMAIN order |->
                 [hash |-> generated[order[i]].MD5,
                  size |-> generated[order[i]].Size, path |-> order[i]]],
   SHA1 |-> [i \in DOMAIN order |->
               [hash |-> generated[order[i]].SHA1,
                size |-> generated[order[i]].Size, path |-> order[i]]],
   SHA256 |-> [i \in DOMAIN order |->
                 [hash |-> generated[order[i]].SHA256,
                  size |-> generated[order[i]].Size, path |-> order[i]]]]

\* Lines 350-386: the Release file.
PublishRelease ==
  /\ ppc = "release"
  /\ \E outcome \in {"ok", "create", "write"} :
       IF outcome = "create"
         THEN /\ PublishFails("unable to create Release file")
              /\ UNCHANGED publishedStorage
       ELSE IF outcome = "write"
         THEN /\ PublishFails("unable to create Release file")
              /\ publishedStorage' = WriteFile(publishedStorage,
                                               ReleasePath(pub),
                                               File("Release", <<>>))
       ELSE \E order \in Orders(DOMAIN generatedFiles), date \in Dates :
              /\ publishedStorage' =
                   WriteFile(publishedStorage, ReleasePath(pub),
                             File("Release",
                                  <<ReleaseStanza(pub, generatedFiles,
                                                  order, date)>>))
              /\ ppc' = "sign"
              /\ UNCHANGED perr
  /\ UNCHANGED <<pub, pkgList, signer, generatedFiles, archIndex>>
  /\ UNCHANGED <<newVars, collectionVars>>

\* PublishSign that goes on to ClearSign after DetachedSign failed.
PublishSignClearAfterFailure ==
  /\ ppc = "sign"
  /\ LET release == publishedStorage[ReleasePath(pub)]
         inRelease == Join(<<DirOf(ReleasePath(pub)), S("InRelease")>>)
         withGpg == WriteFile(publishedStorage, ReleasePath(pub) \o <<".gpg">>,
                              File("gpg", release.data))
     IN  IF ~signer
           THEN /\ ppc' = "done"
                /\ UNCHANGED <<publishedStorage, perr>>
         ELSE \E outcome \in {"ok", "detached", "clear"} :
                IF outcome = "detached"
                  THEN /\ PublishFails("unable to sign Release file")
                       /\ publishedStorage' =
                            WriteFile(publishedStorage, inRelease,
                                      File("clearsigned", release.data))
                ELSE IF outcome = "clear"
                  THEN /\ PublishFails("unable to sign Release file")
                       /\ publishedStorage' = withGpg
                ELSE /\ publishedStorage' =
                          WriteFile(withGpg, inRelease,
                                    File("clearsigned", release.data))
                     /\ ppc' = "done"
                     /\ UNCHANGED perr
  /\ UNCHANGED <<pub, pkgList, signer, generatedFiles, archIndex>>
  /\ UNCHANGED <<newVars, collectionVars>>

\* Lines 388-405: the signatures, when there is a signer.
PublishSign ==
  /\ ppc = "sign"
  /\ LET release == publishedStorage[ReleasePath(pub)]
         withGpg == WriteFile(publishedStorage, ReleasePath(pub) \o <<".gpg">>,
                              File("gpg", release.data))
         withInRelease ==
           WriteFile(withGpg, Join(<<DirOf(ReleasePath(pub)), S("InRelease")>>),
                     File("clearsigned", release.data))
     IN  IF ~signer
           THEN /\ ppc' = "done"
                /\ UNCHANGED <<publishedStorage, perr>>
         ELSE \E outcome \in {"ok", "detached", "clear"} :
                IF outcome = "detached"
                  THEN /\ PublishFails("unable to sign Release file")
                       /\ UNCHANGED publishedStorage
                ELSE IF outcome = "clear"
                  THEN /\ PublishFails("unable to sign Release file")
                       /\ publishedStorage' = withGpg
                ELSE /\ publishedStorage' = withInRelease
                     /\ ppc' = "done"
                     /\ UNCHANGED perr
  /\ UNCHANGED <<pub, pkgList, signer, generatedFiles, archIndex>>
  /\ UNCHANGED <<newVars, collectionVars>>

\* The loop over p.Architectures from its i-th element on, when nothing
\* fails: the storage and generatedFiles at its end.
RECURSIVE ArchLoop(_, _, _, _, _)
ArchLoop(storage, generated, p, packages, i) ==
  IF i > Len(p.Architectures)
    THEN [storage |-> storage, generated |-> generated]
  ELSE LET arch == p.Architectures[i]
           relativePath == RelativePath(p, arch)
           path == Join(<<BasePath(p), relativePath>>)
           matching == SelectSeq(packages,
                                 LAMBDA q : MatchesArchitecture(q, arch))
           linked == LinkFromPool(MkDir(storage, DirOf(path)), matching,
                                  p.Prefix, p.Component)
           plain == WriteFile(linked, path, File("text", IndexData(matching)))
           withGz == WriteFile(plain, path \o <<".gz">>,
                               Compressed(plain[path], "gz"))
           withBz2 == WriteFile(withGz, path \o <<".bz2">>,
                                Compressed(plain[path], "bz2"))
           keys == {relativePath, relativePath \o <<".gz">>,
                    relativePath \o <<".bz2">>}
       IN  ArchLoop(withBz2,
                    [k \in DOMAIN generated \cup keys |->
                       IF k \in keys
                         THEN ChecksumsForFile(withBz2,
                                               Join(<<BasePath(p), k>>))
                         ELSE generated[k]],
                    p, packages, i + 1)

\* Publish from its first line to "return nil" when nothing fails: the
\* storage it leaves.  The map generatedFiles is iterated in the order of
\* its keys, one of the orders it may be iterated in; date is time.Now().
\* The loop's result and the stanza are bound once, as the code's locals
\* are.
PublishOutcome(storage, p, packages, withSigner, date) ==
  LET q == [p EXCEPT !.Architectures = ResolveArchitectures(p, packages)]
      dirs == MkDir(MkDir(storage, Join(<<q.Prefix, S("pool")>>)), BasePath(q))
      Signed(withRelease, stanza) ==
        LET withGpg == WriteFile(withRelease, ReleasePath(q) \o <<".gpg">>,
                                 File("gpg", <<stanza>>))
        IN  WriteFile(withGpg, Join(<<DirOf(ReleasePath(q)), S("InRelease")>>),
                      File("clearsigned", <<stanza>>))
      Released(loop, stanza) ==
        LET withRelease == WriteFile(loop.storage, ReleasePath(q),
                                     File("Release", <<stanza>>))
        IN  IF withSigner THEN Signed(withRelease, stanza) ELSE withRelease
  IN  CHOOSE outcome \in
        UNION {{Released(loop, stanza) :
                  stanza \in {ReleaseStanza(q, loop.generated,
                                            SortedKeys(DOMAIN loop.generated),
                                            date)}} :
                 loop \in {ArchLoop(dirs, <<>>, q, packages, 1)}} : TRUE

\* Inputs of Publish.
Package(name, arch) == [Name |-> name, Architecture |-> S(arch)]

PackageLists ==
  {<<>>,
   <<Package("libfoo_amd64", "amd64")>>,
   <<Package("foo_source", "source"), Package("libfoo_amd64", "amd64")>>,
   <<Package("foo-doc_all", "all")>>,
   <<Package("libfoo_amd64", "amd64"), Package("foo-doc_all", "all")>>}

ArchitectureLists == {<<>>, <<S("i386")>>, <<S("i386"), S("amd64")>>}

PublishedRepos ==
  {[UUID |-> 1, Prefix |-> pr, Distribution |-> Wheezy, Component |-> Main,
    Architectures |-> archs, SourceKind |-> "snapshot", SourceUUID |-> 0] :
     pr \in {Dot, S("foo")}, archs \in ArchitectureLists}

\* The storage before Publish: empty, or holding the index of an earlier
\* publication to the same distribution directory.
StaleIndex(p) == Join(<<BasePath(p), RelativePath(p, S("bar"))>>)

StorageBefore(p) ==
  {<<>>,
   WriteFile(MkDir(<<>>, DirOf(StaleIndex(p))), StaleIndex(p),
             File("text", <<>>))}

\* Every package list is published with no or one given architecture, under
\* both prefixes, signed or not, to an empty or a used directory.  The
\* publications of two architectures (given, or those of the package list)
\* are signed ones under prefix "foo" to a used directory.
InitPublish ==
  /\ NewIdle
  /\ CollectionIdle
  /\ pub \in PublishedRepos
  /\ pkgList \in PackageLists
  /\ signer \in BOOLEAN
  /\ publishedStorage \in StorageBefore(pub)
  /\ Len(pub.Architectures) = 2 =>
        pkgList \in {<<>>, <<Package("libfoo_amd64", "amd64"),
                             Package("foo-doc_all", "all")>>}
  /\ Len(ResolveArchitectures(pub, pkgList)) = 2 =>
        /\ pub.Prefix = S("foo")
        /\ signer
        /\ publishedStorage # <<>>
  /\ generatedFiles = <<>>
  /\ archIndex = 0
  /\ ppc = "start"
  /\ perr = ""

NextPublish ==
  \/ PublishMkDirs
  \/ PublishLoad
  \/ PublishArch
  \/ PublishRelease
  \/ PublishSign

SpecPublish == InitPublish /\ [][NextPublish]_vars

-----------------------------------------------------------------------------
(* Lifecycle: Add, Publish and Remove on one registry and one storage      *)

\* What construction accepts: prefixes nested in one another, and
\* distributions whose name holds a '/' (Debian's security archive is
\* "wheezy/updates") or a "..": the distribution is not checked.
Updates == Wheezy \o <<"/">> \o S("updates")

\* A distribution that names a directory above <Prefix>/dists: "../bar".
UpBar == DotDot \o <<"/">> \o S("bar")

LifecyclePrefixes      == {S("foo"), S("foo") \o <<"/">> \o S("bar")}
LifecycleDistributions == {Wheezy, Updates, UpBar}

LifecycleRepos ==
  {[UUID |-> nextUUID, Prefix |-> p, Distribution |-> d, Component |-> c,
    Architectures |-> <<>>, SourceKind |-> "snapshot", SourceUUID |-> 0] :
     p \in LifecyclePrefixes, d \in LifecycleDistributions,
     c \in Components}

\* The packages of every source, and the time of every Publish.
LifecyclePackages == <<Package("libfoo_amd64", "amd64")>>
LifecycleDate == "Thu, 5 Nov 2026 01:00:00 UTC"

\* Add(repo) on a store that does not fail.
LifecycleAdd ==
  /\ nextUUID <= MaxObjects
  /\ \E repo \in LifecycleRepos : AddCall(repo, FALSE)
  /\ nextUUID' = nextUUID + 1
  /\ UNCHANGED publishedStorage
  /\ UNCHANGED <<pub, pkgList, signer, generatedFiles, archIndex, ppc, perr>>
  /\ UNCHANGED newVars

\* Publish on an archive of the registry that was not published yet, with
\* no signer, when nothing fails: the files are on storage and the archive
\* in the list has its Architectures.
LifecyclePublish ==
  /\ \E i \in DOMAIN list :
       /\ list[i].Architectures = <<>>
       /\ publishedStorage' =
            PublishOutcome(publishedStorage, list[i], LifecyclePackages,
                           FALSE, LifecycleDate)
       /\ list' = [list EXCEPT ![i].Architectures =
                     ResolveArchitectures(list[i], LifecyclePackages)]
       /\ call' = [NoCall EXCEPT !.op = "Publish", !.repo = list'[i]]
  /\ UNCHANGED <<db, nextUUID>>
  /\ UNCHANGED <<pub, pkgList, signer, generatedFiles, archIndex, ppc, perr>>
  /\ UNCHANGED newVars

\* Remove(prefix, distribution) on a store and a storage that do not fail.
LifecycleRemove ==
  /\ \E p \in LifecyclePrefixes, d \in LifecycleDistributions :
       RemoveCall(p, d)
  /\ call'.err \in {"", "not found"}
  /\ UNCHANGED nextUUID
  /\ UNCHANGED <<pub, pkgList, signer, generatedFiles, archIndex, ppc, perr>>
  /\ UNCHANGED newVars

NextLifecycle ==
  \/ LifecycleAdd
  \/ LifecyclePublish
  \/ LifecycleRemove

SpecLifecycle == Init /\ [][NextLifecycle]_vars

-----------------------------------------------------------------------------
(* RemoveFiles called on an archive                                        *)

\* An archive p, and a storage that is empty or holds p's publication.
InitRemoveFiles ==
  /\ NewIdle
  /\ CollectionIdle
  /\ pub \in NewRepos
  /\ pkgList = <<>>
  /\ signer = FALSE
  /\ publishedStorage \in
       {<<>>, PublishOutcome(<<>>, pub, LifecyclePackages, FALSE,
                             LifecycleDate)}
  /\ generatedFiles = <<>>
  /\ archIndex = 0
  /\ ppc = "idle"
  /\ perr = ""

\* p.RemoveFiles(publishedStorage, removePrefix, removePoolComponent): the
\* RemoveDirs calls in order, any of which may fail and end the call.
RemoveFilesCall ==
  /\ \E removePrefix \in BOOLEAN, removePoolComponent \in BOOLEAN :
       LET dirs == RemoveFiles(pub, removePrefix, removePoolComponent)
       IN  \E attempted \in 1..Len(dirs), fails \in BOOLEAN :
             /\ ~fails => attempted = Len(dirs)
             /\ publishedStorage' =
                  RemoveAllDirs(publishedStorage,
                                SubSeq(dirs, 1, IF fails THEN attempted - 1
                                                         ELSE attempted))
             /\ call' = [NoCall EXCEPT
                           !.op = "RemoveFiles",
                           !.repo = pub,
                           !.removePrefix = removePrefix,
                           !.removePoolComponent = removePoolComponent,
                           !.removed = SubSeq(dirs, 1, attempted),
                           !.err = IF fails THEN "remove dirs" ELSE ""]
  /\ UNCHANGED <<list, db, nextUUID>>
  /\ UNCHANGED <<pub, pkgList, signer, generatedFiles, archIndex, ppc, perr>>
  /\ UNCHANGED newVars

SpecRemoveFiles == InitRemoveFiles /\ [][RemoveFilesCall]_vars

-----------------------------------------------------------------------------
(* Add of archives whose names hold the key's separator                    *)

\* Archives as construction returns them for prefixes and distributions
\* with and without ">>": construction checks the prefix for "..", "dists"
\* and "pool" only, and the distribution not at all.
KeyRepos ==
  {[UUID |-> nextUUID, Prefix |-> p, Distribution |-> d, Component |-> c,
    Architectures |-> <<>>, SourceKind |-> "snapshot", SourceUUID |-> 0] :
     p \in {S("foo"), <<"foo", ">", ">">>},
     d \in {Wheezy, <<">", ">", "wheezy">>},
     c \in Components}

\* Add(repo) for such an archive.
KeyedAdd ==
  /\ nextUUID <= MaxObjects
  /\ \E repo \in KeyRepos, putFails \in BOOLEAN : AddCall(repo, putFails)
  /\ nextUUID' = nextUUID + 1
  /\ UNCHANGED <<newVars, publishVars>>

SpecKeys == Init /\ [][KeyedAdd \/ Load]_vars

-----------------------------------------------------------------------------
(* Properties of PublishedRepoCollection                                   *)

SameIdentity(a, b) ==
  a.Prefix = b.Prefix /\ a.Distribution = b.Distribution

DistsDir(p) == p.Prefix \o <<"/", "dists">>
PoolDir(p)  == p.Prefix \o <<"/", "pool">>
DistributionDir(p)  == DistsDir(p) \o <<"/">> \o p.Distribution
PoolComponentDir(p) == PoolDir(p) \o <<"/">> \o p.Component

\* A path as the storage sees it below its root: "./x" names "x".
Below(path) ==
  IF Len(path) >= 2 /\ path[1] = "." /\ path[2] = "/"
    THEN SubSeq(path, 3, Len(path))
    ELSE path

\* The other entries of l that are under the prefix of the entry at position.
OthersUnderPrefix(l, position) ==
  {i \in DOMAIN l : i # position /\ l[i].Prefix = l[position].Prefix}

\* C1: no two distinct entries of the in-memory list have the same
\* (Prefix, Distribution), after any sequence of Add, Update, Remove and
\* reloads of the list from the store.
C1_UniqueIdentity ==
  \A i, j \in DOMAIN list : i # j => ~SameIdentity(list[i], list[j])

\* C1 witness: a list of two entries under one prefix, loaded from the store.
C1_Witness ==
  /\ call.op = "Load"
  /\ Len(list) = 2
  /\ list[1].Prefix = list[2].Prefix

\* The step is a Remove whose target X = call'.repo was found, and before it
\* the list held X at call'.position.
RemoveFound ==
  /\ call'.op = "Remove"
  /\ call'.position \in DOMAIN list
  /\ list[call'.position] = call'.repo

\* C2 as stated: with another archive Y under X's prefix (with a different
\* distribution, whatever the components), Remove(X) removes
\* <Prefix>/dists/<X.Distribution> and no other directory.
C2_OnlyDistribution ==
  [][(RemoveFound /\ OthersUnderPrefix(list, call'.position) # {}) =>
       \A dir \in Range(call'.removed) :
          Below(dir) = Below(DistributionDir(call'.repo))]_vars

\* C2 amended: with another archive Y under X's prefix, Remove(X) removes
\* <Prefix>/dists/<X.Distribution> and, when no other archive under the
\* prefix has X's Component, then also <Prefix>/pool/<X.Component>; it
\* removes neither <Prefix>/pool nor <Prefix>/dists nor any other directory.
C2_DistributionAndOwnPool ==
  [][(RemoveFound /\ OthersUnderPrefix(list, call'.position) # {}) =>
       LET X == call'.repo
           ownPool == \A i \in OthersUnderPrefix(list, call'.position) :
                         list[i].Component # X.Component
           planned == <<Below(DistributionDir(X))>>
                      \o IF ownPool THEN <<Below(PoolComponentDir(X))>>
                                    ELSE <<>>
           done == [i \in DOMAIN call'.removed |-> Below(call'.removed[i])]
       IN  /\ Len(done) >= 1
           /\ Len(done) <= Len(planned)
           /\ done = SubSeq(planned, 1, Len(done))
           /\ call'.err \in {"", "delete"} => done = planned
           /\ Below(PoolDir(X)) \notin Range(done)
           /\ Below(DistsDir(X)) \notin Range(done)]_vars

\* C2 witness: X was removed while Y, of another component, stays under the
\* prefix; the distribution directory and X's pool component were removed.
C2_Witness ==
  /\ call.op = "Remove"
  /\ call.err = ""
  /\ Len(list) = 1
  /\ list[1].Prefix = call.repo.Prefix
  /\ list[1].Component # call.repo.Component
  /\ Len(call.removed) = 2

\* C3: when another archive shares both Prefix and Component with X,
\* Remove(X) removes neither <Prefix>/pool/<Component> nor <Prefix>/pool.
C3_SharedPoolKept ==
  [][(/\ RemoveFound
      /\ \E i \in OthersUnderPrefix(list, call'.position) :
            list[i].Component = call'.repo.Component) =>
       \A dir \in Range(call'.removed) :
          /\ Below(dir) # Below(PoolComponentDir(call'.repo))
          /\ Below(dir) # Below(PoolDir(call'.repo))]_vars

\* C3 witness: X was removed while Y with X's prefix and component stays.
C3_Witness ==
  /\ call.op = "Remove"
  /\ call.err = ""
  /\ Len(list) = 1
  /\ list[1].Prefix = call.repo.Prefix
  /\ list[1].Component = call.repo.Component
  /\ Len(call.removed) = 1

\* C4: Remove passes removePrefix = TRUE exactly when no other entry has the
\* target's Prefix, and removePoolComponent = TRUE exactly when no other
\* entry has the target's Prefix and Component; so <Prefix>/pool is removed
\* only when the target is the last archive under the prefix, and
\* <Prefix>/pool/<Component> only when no other archive under the prefix
\* uses the component.
C4_RemoveFlags ==
  [][RemoveFound =>
       LET X == call'.repo
           others == OthersUnderPrefix(list, call'.position)
           sharing == {i \in others : list[i].Component = X.Component}
       IN  /\ call'.removePrefix <=> others = {}
           /\ call'.removePoolComponent <=> sharing = {}
           /\ (\E dir \in Range(call'.removed) :
                  Below(dir) = Below(PoolDir(X))) => others = {}
           /\ (\E dir \in Range(call'.removed) :
                  Below(dir) = Below(PoolComponentDir(X))) => sharing = {}
           /\ call'.removed =
                SubSeq(RemoveFiles(X, others = {}, sharing = {}),
                       1, Len(call'.removed))]_vars

\* C4 witness: the last archive under its prefix was removed, with
\* <Prefix>/dists and <Prefix>/pool, while an archive under another prefix
\* with the same component stays.
C4_Witness ==
  /\ call.op = "Remove"
  /\ call.err = ""
  /\ call.removePrefix
  /\ call.removePoolComponent
  /\ Len(call.removed) = 2
  /\ Len(list) = 1
  /\ list[1].Prefix # call.repo.Prefix
  /\ list[1].Component = call.repo.Component

\* C5: Add(x) fails when the list already holds an entry with x's
\* (Prefix, Distribution), and then leaves list and store as they were;
\* otherwise x is persisted under its key and appended to the list, unless
\* persisting fails, and then x is not appended.
C5_Add ==
  [][call'.op = "Add" =>
       LET x == call'.repo
       IN  IF \E i \in DOMAIN list : SameIdentity(list[i], x)
             THEN /\ call'.err = "already exists"
                  /\ list' = list
                  /\ db' = db
           ELSE IF call'.err # ""
             THEN /\ call'.err = "put"
                  /\ list' = list
           ELSE /\ Key(x) \in DOMAIN db'
                /\ db'[Key(x)] = Encode(x)
                /\ \A k \in DOMAIN db \ {Key(x)} :
                      k \in DOMAIN db' /\ db'[k] = db[k]
                /\ list' = Append(list, x)]_vars

\* C5 witness: an Add was refused because the list holds an entry with the
\* same prefix and distribution (and another component).
C5_Witness ==
  /\ call.op = "Add"
  /\ call.err = "already exists"
  /\ Len(list) = 1
  /\ SameIdentity(list[1], call.repo)
  /\ list[1].Component # call.repo.Component

\* The keys of the records persisted under "U".
PersistedKeys == {k \in DOMAIN db : Len(k) > 0 /\ k[1] = "U"}

\* C12: Remove deletes the persisted record before it takes the entry out of
\* the in-memory list, so that when deleting the record fails the entry is
\* still in the list.
C12_EntryKeptWhenDeleteFails ==
  [][(RemoveFound /\ call'.err = "delete") =>
       \E i \in DOMAIN list' : list'[i] = call'.repo]_vars

\* C19: after every Add, Update or Remove call, failed or not, the records
\* persisted under "U" and the entries of the in-memory list correspond one
\* to one, by key.
C19_StoreMatchesList ==
  call.op \in {"Add", "Update", "Remove"} =>
     /\ PersistedKeys = {Key(list[i]) : i \in DOMAIN list}
     /\ \A i, j \in DOMAIN list : Key(list[i]) = Key(list[j]) => i = j

\* C20: a Remove that fails because the target is not found, or because
\* RemoveFiles returns an error of the storage, leaves the in-memory list
\* and the persisted records as they were.
C20_FailedRemoveKeepsRegistry ==
  [][(call'.op = "Remove" /\ call'.err \in {"not found", "remove dirs"}) =>
       /\ list' = list
       /\ db' = db]_vars

\* C20 witness: Remove of an entry failed at its second RemoveDirs call, on
\* a registry of two entries that are both persisted.
C20_Witness ==
  /\ call.op = "Remove"
  /\ call.err = "remove dirs"
  /\ Len(call.removed) = 2
  /\ Len(list) = 2
  /\ call.repo \in Range(list)
  /\ Cardinality(PersistedKeys) = 2

-----------------------------------------------------------------------------
(* Properties of Publish                                                   *)

Published == ppc = "done"

\* The files on storage under dir, relative to dir.
FilesUnder(storage, dir) ==
  {SubSeq(path, Len(dir) + 2, Len(path)) :
     path \in {q \in DOMAIN storage :
                 /\ storage[q].kind # "dir"
                 /\ Len(q) > Len(dir) + 1
                 /\ SubSeq(q, 1, Len(dir) + 1) = dir \o <<"/">>}}

\* The stanza in the Release file on storage.
ReleaseOnStorage == publishedStorage[ReleasePath(pub)].data[1]

ListedPaths(section) == {section[i].path : i \in DOMAIN section}

\* Each line of the three checksum sections gives the size and the digest of
\* the bytes that are on storage at its path.
ListedChecksumsMatch ==
  LET release == ReleaseOnStorage
      OnStorage(line) ==
        ChecksumsForFile(publishedStorage, Join(<<BasePath(pub), line.path>>))
  IN  /\ \A i \in DOMAIN release.MD5Sum :
           /\ release.MD5Sum[i].size = OnStorage(release.MD5Sum[i]).Size
           /\ release.MD5Sum[i].hash = OnStorage(release.MD5Sum[i]).MD5
      /\ \A i \in DOMAIN release.SHA1 :
           /\ release.SHA1[i].size = OnStorage(release.SHA1[i]).Size
           /\ release.SHA1[i].hash = OnStorage(release.SHA1[i]).SHA1
      /\ \A i \in DOMAIN release.SHA256 :
           /\ release.SHA256[i].size = OnStorage(release.SHA256[i]).Size
           /\ release.SHA256[i].hash = OnStorage(release.SHA256[i]).SHA256

\* The index files Publish generates for p.Architectures.
IndexFiles(p) ==
  UNION {{RelativePath(p, p.Architectures[i]),
          RelativePath(p, p.Architectures[i]) \o <<".gz">>,
          RelativePath(p, p.Architectures[i]) \o <<".bz2">>} :
           i \in DOMAIN p.Architectures}

\* C6 as stated: after a successful Publish, each checksum section of
\* Release lists exactly the files that exist on storage under
\* <Prefix>/dists/<Distribution>/, with the size and hash of their bytes.
C6_ReleaseListsAllFiles ==
  Published =>
     LET under == FilesUnder(publishedStorage, BasePath(pub))
     IN  /\ ListedPaths(ReleaseOnStorage.MD5Sum) = under
         /\ ListedPaths(ReleaseOnStorage.SHA1) = under
         /\ ListedPaths(ReleaseOnStorage.SHA256) = under
         /\ ListedChecksumsMatch

\* C6 amended: after a successful Publish, each checksum section of Release
\* lists exactly the index files this Publish generated (Packages or
\* Sources with their .gz and .bz2, for every published architecture), each
\* once; every listed file exists on storage under
\* <Prefix>/dists/<Distribution>/ and its listed size and hash are those of
\* its bytes there.  Release itself is in that directory and is not listed,
\* nor are Release.gpg, InRelease and what an earlier publication left.
C6_ReleaseListsIndexFiles ==
  Published =>
     LET under == FilesUnder(publishedStorage, BasePath(pub))
         release == ReleaseOnStorage
         unlisted == under \ IndexFiles(pub)
     IN  /\ ListedPaths(release.MD5Sum) = IndexFiles(pub)
         /\ ListedPaths(release.SHA1) = IndexFiles(pub)
         /\ ListedPaths(release.SHA256) = IndexFiles(pub)
         /\ Len(release.MD5Sum) = Cardinality(IndexFiles(pub))
         /\ Len(release.SHA1) = Cardinality(IndexFiles(pub))
         /\ Len(release.SHA256) = Cardinality(IndexFiles(pub))
         /\ IndexFiles(pub) \subseteq under
         /\ ListedChecksumsMatch
         /\ S("Release") \in unlisted
         /\ unlisted \subseteq {S("Release"), <<"Release", ".gpg">>,
                                S("InRelease"),
                                RelativePath(pub, S("bar"))}
         /\ signer => {<<"Release", ".gpg">>, S("InRelease")} \subseteq unlisted

\* C6 witness: a signed publication of two architectures into a directory
\* that held an older index file.
C6_Witness ==
  /\ Published
  /\ signer
  /\ Len(pub.Architectures) = 2
  /\ Len(ReleaseOnStorage.SHA256) = 6
  /\ RelativePath(pub, S("bar"))
       \in FilesUnder(publishedStorage, BasePath(pub))

\* How many times x occurs in seq.
Count(seq, x) == Cardinality({k \in DOMAIN seq : seq[k] = x})

\* The step leaves the fields of the archive that make its identity and
\* name its source, and so its key.
IdentityKept ==
  /\ pub'.UUID = pub.UUID
  /\ pub'.Prefix = pub.Prefix
  /\ pub'.Distribution = pub.Distribution
  /\ pub'.Component = pub.Component
  /\ pub'.SourceKind = pub.SourceKind
  /\ pub'.SourceUUID = pub.SourceUUID
  /\ Key(pub') = Key(pub)

\* C11 as stated: no step of Publish changes UUID, Prefix, Distribution,
\* Component, SourceKind, SourceUUID or the key; Architectures is the only
\* field Publish changes, and only when it was empty before the call.
C11_ArchitecturesSetWhenEmpty ==
  [][/\ IdentityKept
     /\ pub'.Architectures # pub.Architectures =>
          pub.Architectures = <<>>]_vars

\* C11 amended: no step of Publish changes UUID, Prefix, Distribution,
\* Component, SourceKind, SourceUUID or the key; Architectures is the only
\* field Publish changes: when empty before the call it becomes the sorted
\* architectures of the package list, otherwise it is sorted in place, its
\* elements staying the same.
C11_ArchitecturesSetOrSorted ==
  [][/\ IdentityKept
     /\ pub'.Architectures # pub.Architectures =>
          /\ ppc = "load"
          /\ \A k \in 1..(Len(pub'.Architectures) - 1) :
                ~StrLess(pub'.Architectures[k + 1], pub'.Architectures[k])
          /\ IF pub.Architectures = <<>>
               THEN Range(pub'.Architectures)
                      = {pkgList[i].Architecture : i \in DOMAIN pkgList}
                          \ {S("all")}
               ELSE \A a \in Range(pub.Architectures)
                             \cup Range(pub'.Architectures) :
                       Count(pub'.Architectures, a)
                         = Count(pub.Architectures, a)]_vars

\* C11 witness: the architectures given as i386, amd64 have been published
\* and are now amd64, i386.
C11_Witness ==
  /\ Published
  /\ pub.Architectures = <<S("amd64"), S("i386")>>
  /\ Key(pub) = <<"U", "foo", ">", ">", "wheezy">>

\* The path of the index file of architecture arch, spelled out.
IndexPath(p, arch) ==
  Below(DistributionDir(p) \o <<"/">> \o p.Component
        \o IF arch = S("source")
             THEN <<"/", "source", "/", "Sources">>
             ELSE <<"/", "binary-">> \o arch \o <<"/", "Packages">>)

\* C14: after a successful Publish every architecture A of Architectures
\* has its index file, <Component>/binary-<A>/Packages or
\* <Component>/source/Sources, which holds one stanza, followed by one blank
\* line, for each package that matches A, and nothing else: none for a
\* package that does not match, an empty file when no package matches.
C14_IndexFileContents ==
  Published =>
     \A a \in Range(pub.Architectures) :
        /\ IndexPath(pub, a) \in DOMAIN publishedStorage
        /\ LET data == publishedStorage[IndexPath(pub, a)].data
               matching == {i \in DOMAIN pkgList :
                              MatchesArchitecture(pkgList[i], a)}
           IN  /\ publishedStorage[IndexPath(pub, a)].kind = "text"
               /\ Len(data) = 2 * Cardinality(matching)
               /\ \A k \in DOMAIN data :
                     IF k % 2 = 0
                       THEN data[k] = "\n"
                       ELSE \E i \in matching : data[k] = pkgList[i].Name
               /\ \A i \in DOMAIN pkgList :
                     Count(data, pkgList[i].Name)
                       = IF i \in matching THEN 1 ELSE 0

\* C14 witness: two binary architectures were published; one package is in
\* the index files of both, another in one of them only.
C14_Witness ==
  /\ Published
  /\ Len(pub.Architectures) = 2
  /\ S("source") \notin Range(pub.Architectures)
  /\ \E i, j \in DOMAIN pkgList :
        /\ \A a \in Range(pub.Architectures) :
              Count(publishedStorage[IndexPath(pub, a)].data,
                    pkgList[i].Name) = 1
        /\ \E a \in Range(pub.Architectures) :
              Count(publishedStorage[IndexPath(pub, a)].data,
                    pkgList[j].Name) = 0

GpgPath(p) == ReleasePath(p) \o <<".gpg">>
InReleasePath(p) == Join(<<DirOf(ReleasePath(p)), S("InRelease")>>)

\* The step creates the file at path or changes its bytes.
Writes(path) ==
  /\ path \in DOMAIN publishedStorage'
  /\ \/ path \notin DOMAIN publishedStorage
     \/ publishedStorage'[path] # publishedStorage[path]

\* C13: Release.gpg and InRelease are written only by a Publish that has a
\* signer, after Release has been written in full, and Release is not
\* touched again; InRelease is written only together with or after
\* Release.gpg.  A successful Publish with a signer leaves Release,
\* Release.gpg and InRelease in one directory, both made of Release; without
\* a signer it leaves neither Release.gpg nor InRelease.  When a signing
\* call fails Publish returns an error, and after a failed DetachedSign
\* there is no InRelease.
C13_SigningAfterRelease ==
  [][/\ (Writes(GpgPath(pub)) \/ Writes(InReleasePath(pub))) =>
          /\ signer
          /\ ppc = "sign"
          /\ ReleasePath(pub) \in DOMAIN publishedStorage
          /\ Len(publishedStorage[ReleasePath(pub)].data) = 1
          /\ Len(ReleaseOnStorage.SHA256) = Cardinality(DOMAIN generatedFiles)
          /\ publishedStorage'[ReleasePath(pub)]
               = publishedStorage[ReleasePath(pub)]
     /\ Writes(InReleasePath(pub)) =>
          /\ GpgPath(pub) \in DOMAIN publishedStorage'
          /\ publishedStorage'[GpgPath(pub)].data
               = publishedStorage[ReleasePath(pub)].data
     /\ (ppc = "sign" /\ ppc' = "done") =>
          IF signer
            THEN /\ {GpgPath(pub), InReleasePath(pub)}
                      \subseteq DOMAIN publishedStorage'
                 /\ DirOf(GpgPath(pub)) = DirOf(ReleasePath(pub))
                 /\ DirOf(InReleasePath(pub)) = DirOf(ReleasePath(pub))
                 /\ publishedStorage'[GpgPath(pub)].data
                      = publishedStorage'[ReleasePath(pub)].data
                 /\ publishedStorage'[InReleasePath(pub)].data
                      = publishedStorage'[ReleasePath(pub)].data
            ELSE /\ GpgPath(pub) \notin DOMAIN publishedStorage'
                 /\ InReleasePath(pub) \notin DOMAIN publishedStorage'
     /\ (ppc = "sign" /\ ppc' = "failed") =>
          /\ signer
          /\ perr' = "unable to sign Release file"
          /\ InReleasePath(pub) \notin DOMAIN publishedStorage'
     /\ (ppc = "sign" /\ signer
         /\ ~({GpgPath(pub), InReleasePath(pub)}
                \subseteq DOMAIN publishedStorage')) =>
          ppc' = "failed"]_vars

\* C13 witness: DetachedSign has written Release.gpg, and ClearSign failed.
C13_Witness ==
  /\ ppc = "failed"
  /\ perr = "unable to sign Release file"
  /\ signer
  /\ GpgPath(pub) \in DOMAIN publishedStorage
  /\ InReleasePath(pub) \notin DOMAIN publishedStorage
  /\ Len(ReleaseOnStorage.MD5Sum) = 3

\* The storage this Publish started from: empty, or holding the index file
\* of an earlier publication (which Publish never writes).
StorageAtStart ==
  IF StaleIndex(pub) \in DOMAIN publishedStorage
    THEN WriteFile(MkDir(<<>>, DirOf(StaleIndex(pub))), StaleIndex(pub),
                   publishedStorage[StaleIndex(pub)])
    ELSE <<>>

\* A second run of Publish on the inputs of this one: the same entity,
\* package list, signer and storage at start, at another time, the map
\* generatedFiles being iterated in ascending order of path.
SecondRun ==
  PublishOutcome(StorageAtStart, pub, pkgList, signer,
                 "Fri, 6 Nov 2026 01:00:00 UTC")

\* The files made of the Release stanza.
ReleaseFiles(p) ==
  {ReleasePath(p), ReleasePath(p) \o <<".gpg">>,
   Join(<<DirOf(ReleasePath(p)), S("InRelease")>>)}

\* A storage with the Date field blanked in Release and in the signed
\* copies of it.
WithoutDate(storage, p) ==
  [x \in DOMAIN storage |->
     IF x \in ReleaseFiles(p)
       THEN File(storage[x].kind,
                 [i \in DOMAIN storage[x].data |->
                    [storage[x].data[i] EXCEPT !.Date = ""]])
       ELSE storage[x]]

\* A storage with Date blanked and each checksum section of Release turned
\* into the set of its lines.
WithoutDateAndOrder(storage, p) ==
  [x \in DOMAIN storage |->
     IF x \in ReleaseFiles(p)
       THEN File(storage[x].kind,
                 [i \in DOMAIN storage[x].data |->
                    [storage[x].data[i] EXCEPT
                       !.Date = "",
                       !.MD5Sum = Range(@),
                       !.SHA1 = Range(@),
                       !.SHA256 = Range(@)]])
       ELSE storage[x]]

\* C15 as stated: two runs of Publish on identical inputs leave the same
\* files with the same bytes, the Date field of Release apart; the bytes of
\* the MD5Sum, SHA1 and SHA256 sections are the same.
C15_SameBytesButDate ==
  Published =>
     WithoutDate(publishedStorage, pub) = WithoutDate(SecondRun, pub)

\* C15 amended: two runs of Publish on identical inputs leave the same set
\* of files; every file but Release and its signed copies has the same
\* bytes; the Release files are the same in every field but Date, and each
\* checksum section holds the same lines, as many, in an order that may
\* differ.
C15_SameButDateAndOrder ==
  Published =>
     LET second == SecondRun
         one == publishedStorage[ReleasePath(pub)].data[1]
         two == second[ReleasePath(pub)].data[1]
     IN  /\ DOMAIN publishedStorage = DOMAIN second
         /\ \A x \in DOMAIN publishedStorage \ ReleaseFiles(pub) :
               publishedStorage[x] = second[x]
         /\ WithoutDateAndOrder(publishedStorage, pub)
              = WithoutDateAndOrder(second, pub)
         /\ Len(one.MD5Sum) = Len(two.MD5Sum)
         /\ Len(one.SHA1) = Len(two.SHA1)
         /\ Len(one.SHA256) = Len(two.SHA256)

\* C15 witness: a signed publication of two architectures whose Release
\* lists the files in another order and at another time than the second
\* run.
C15_Witness ==
  /\ Published
  /\ signer
  /\ Len(pub.Architectures) = 2
  /\ LET two == SecondRun[ReleasePath(pub)].data[1]
     IN  /\ ReleaseOnStorage.MD5Sum # two.MD5Sum
         /\ ReleaseOnStorage.Date # two.Date

\* C23: Publish takes its steps in order (directories, package load and
\* architectures, one architecture after the other, Release, signing) and a
\* failing step ends it with an error: nothing comes after it.  An empty
\* package list fails it in the load step.  The index files are written in
\* the architecture steps only, and Release is written in the Release step
\* only, when every architecture's three files are on storage with their
\* checksums collected.
C23_StepsInOrder ==
  [][/\ ppc \notin {"failed", "done"}
     /\ <<ppc, ppc'>> \in {<<"start", "load">>, <<"load", "arch">>,
                           <<"arch", "arch">>, <<"arch", "release">>,
                           <<"release", "sign">>, <<"sign", "done">>}
                          \cup {<<step, "failed">> :
                                  step \in {"start", "load", "arch",
                                            "release", "sign"}}
     /\ (ppc' = "failed") <=> (perr' # "")
     /\ ppc' = "load" =>
          {Join(<<pub.Prefix, S("pool")>>), BasePath(pub)}
             \subseteq DOMAIN publishedStorage'
     /\ (ppc = "load" /\ pkgList = <<>>) =>
          /\ ppc' = "failed"
          /\ perr' \in {"unable to load packages", "snapshot is empty"}
     /\ (ppc = "arch" /\ ppc' = "arch") => archIndex' = archIndex + 1
     /\ ppc # "load" => pub' = pub
     /\ (\E f \in IndexFiles(pub') : Writes(Join(<<BasePath(pub), f>>)))
          => ppc = "arch"
     /\ Writes(ReleasePath(pub)) =>
          /\ ppc = "release"
          /\ archIndex = Len(pub.Architectures) + 1
          /\ DOMAIN generatedFiles = IndexFiles(pub)
          /\ \A f \in IndexFiles(pub) :
                /\ Join(<<BasePath(pub), f>>) \in DOMAIN publishedStorage
                /\ generatedFiles[f] =
                     ChecksumsForFile(publishedStorage,
                                      Join(<<BasePath(pub), f>>))]_vars

\* C23 witness: the second architecture step failed after the first one was
\* done; the three files of the first are on storage, Release is not.
C23_Witness ==
  /\ ppc = "failed"
  /\ perr = "unable to compress Packages files"
  /\ archIndex = 2
  /\ Cardinality(DOMAIN generatedFiles) = 3
  /\ DOMAIN generatedFiles \subseteq FilesUnder(publishedStorage, BasePath(pub))
  /\ ReleasePath(pub) \notin DOMAIN publishedStorage

-----------------------------------------------------------------------------
(* Properties of NewPublishedRepo                                          *)

Returned == pc = "done"
Succeeded == pc = "done" /\ result # Nil
PrefixRejected == pc = "done" /\ err # NoError /\ err[1] = "invalid prefix"

\* roots is not empty and each of its elements is v.
AllEqualTo(roots, v) == Len(roots) > 0 /\ \A i \in DOMAIN roots : roots[i] = v
Unanimous(roots) == \E v \in Range(roots) : AllEqualTo(roots, v)

HasBadSegment(p) ==
  \E part \in Range(SplitSlash(p)) :
     part \in {DotDot, S("dists"), S("pool")}

\* The collection a snapshot's SourceKind names.
SourceCollection(kind, factory) ==
  IF kind = "repo" THEN factory.remotes
  ELSE IF kind = "local" THEN factory.locals
  ELSE IF kind = "snapshot" THEN factory.snapshots
  ELSE <<>>

\* The roots (local and remote repos) at the end of every path of found
\* entities that starts at entity, one for each path.
RECURSIVE RootsBelow(_, _)
RECURSIVE RootsBelowAll(_, _, _)
RootsBelow(entity, factory) ==
  IF entity.type = "snapshot"
    THEN RootsBelowAll(entity.SourceKind, entity.SourceIDs, factory)
    ELSE <<entity>>
RootsBelowAll(kind, ids, factory) ==
  IF ids = <<>> THEN <<>>
  ELSE (IF Head(ids) \in DOMAIN SourceCollection(kind, factory)
          THEN RootsBelow(SourceCollection(kind, factory)[Head(ids)], factory)
          ELSE <<>>)
       \o RootsBelowAll(kind, Tail(ids), factory)

\* The distributions and components the roots give.
RECURSIVE DistributionsOf(_)
DistributionsOf(roots) ==
  IF roots = <<>> THEN <<>>
  ELSE LET r == Head(roots)
           d == IF r.type = "local" THEN r.DefaultDistribution
                                    ELSE r.Distribution
       IN  (IF d # Empty THEN <<d>> ELSE <<>>) \o DistributionsOf(Tail(roots))

RECURSIVE ComponentsOf(_)
ComponentsOf(roots) ==
  IF roots = <<>> THEN <<>>
  ELSE LET r == Head(roots)
       IN  (IF r.type = "local"
              THEN IF r.DefaultComponent # Empty THEN <<r.DefaultComponent>>
                                                 ELSE <<>>
              ELSE r.Components)
           \o ComponentsOf(Tail(roots))

\* The call walks the source graph.
Walks ==
  /\ ~InvalidPrefix(CleanPrefix(prefix))
  /\ component = Empty \/ distribution = Empty

\* The roots below the source are the ones the walk has collected.
RootsCollected ==
  LET roots == RootsBelow(source, collectionFactory)
  IN  /\ SortStrings(rootDistributions) = SortStrings(DistributionsOf(roots))
      /\ SortStrings(rootComponents) = SortStrings(ComponentsOf(roots))

\* The roots below the source give one distribution between them.
OneDistributionBelow ==
  LET ds == DistributionsOf(RootsBelow(source, collectionFactory))
  IN  ds # <<>> /\ \A k \in DOMAIN ds : ds[k] = ds[1]

\* C17: on every finite acyclic source graph the walk, once entered, reaches
\* the end of its loop (the frontier is empty), and there every root at the
\* end of a path of found entities has been visited and what it gives is
\* collected; a UUID that is not found is skipped and construction does not
\* fail for it: it succeeds whenever the distribution is given or the roots
\* give exactly one.
C17_WalkTerminates ==
  /\ (pc = "walk") ~> (pc = "walk" /\ current = <<>> /\ RootsCollected)
  /\ [](Returned /\ Walks /\ (distribution # Empty \/ OneDistributionBelow)
          => Succeeded /\ RootsCollected)

\* C17 witness: construction succeeded on a graph in which a remote repo is
\* reached along two paths, through a snapshot that also names a remote repo
\* that is not found.
C17_Witness ==
  /\ Succeeded
  /\ distribution = Empty
  /\ source.type = "snapshot"
  /\ source.SourceKind = "snapshot"
  /\ source.SourceIDs = <<1, 2>>
  /\ DOMAIN collectionFactory.snapshots = {1, 2}
  /\ collectionFactory.snapshots[1].SourceKind = "snapshot"
  /\ DOMAIN collectionFactory.remotes = {1}
  /\ Len(rootDistributions) = 2

\* C7: called with an empty distribution (and a prefix that is accepted, so
\* that the walk runs), construction succeeds with Distribution = d exactly
\* when the walk collected at least one root distribution and all collected
\* ones equal d; otherwise it returns no entity and the error "unable to
\* guess distribution name", whether or not a component was given.
C7_GuessDistribution ==
  (Returned /\ distribution = Empty /\ ~PrefixRejected) =>
     /\ \A d \in Range(rootDistributions) :
           AllEqualTo(rootDistributions, d) =>
              /\ result # Nil
              /\ err = NoError
              /\ result.Distribution = d
     /\ result # Nil => AllEqualTo(rootDistributions, result.Distribution)
     /\ ~Unanimous(rootDistributions) =>
           /\ result = Nil
           /\ err = ErrGuessDistribution

\* C7 witness: a component was given, several roots were collected and they
\* agree, so the distribution is adopted.
C7_Witness ==
  /\ Succeeded
  /\ distribution = Empty
  /\ component # Empty
  /\ Len(rootDistributions) >= 2
  /\ result.Distribution = Wheezy

\* C8: for every raw prefix, construction either fails with "invalid
\* prefix" (exactly when a segment of the normalised prefix is '..', 'dists'
\* or 'pool') or stores a Prefix without such a segment, without leading or
\* trailing slash and equal to its own cleaned form; "/foo/bar/" is stored
\* as "foo/bar" and the root as ".".
C8_PrefixNormalised ==
  Returned =>
     /\ PrefixRejected <=> HasBadSegment(CleanPrefix(prefix))
     /\ PrefixRejected =>
           /\ result = Nil
           /\ err = ErrInvalidPrefix(CleanPrefix(prefix))
     /\ result # Nil =>
           /\ ~HasBadSegment(result.Prefix)
           /\ ~HasPrefixSlash(result.Prefix)
           /\ ~HasSuffixSlash(result.Prefix)
           /\ result.Prefix # Empty
           /\ Clean(result.Prefix) = result.Prefix
           /\ prefix = <<"/", "foo", "/", "bar", "/">> =>
                 result.Prefix = <<"foo", "/", "bar">>
           /\ prefix \in {<<"/">>, Empty, Dot} => result.Prefix = Dot

\* C8 witness: "/foo/bar/" was given and "foo/bar" is stored.
C8_Witness ==
  /\ Succeeded
  /\ prefix = <<"/", "foo", "/", "bar", "/">>
  /\ result.Prefix = <<"foo", "/", "bar">>

\* C9: every entity a successful construction returns has a non-empty
\* Distribution and a non-empty Component.
C9_NonEmptyNames ==
  Succeeded => result.Distribution # Empty /\ result.Component # Empty

\* C10: called with an empty component, guessing the component never fails:
\* construction succeeds whenever the prefix is accepted and the
\* distribution is given or guessed, and then Component is the collected
\* root component if there is at least one and all are equal, and "main"
\* otherwise.
C10_GuessComponent ==
  (Returned /\ component = Empty) =>
     /\ result # Nil <=>
           /\ ~PrefixRejected
           /\ distribution # Empty \/ Unanimous(rootDistributions)
     /\ result = Nil => err \in {ErrGuessDistribution,
                                 ErrInvalidPrefix(CleanPrefix(prefix))}
     /\ result # Nil =>
           IF Unanimous(rootComponents)
             THEN AllEqualTo(rootComponents, result.Component)
             ELSE result.Component = Main

\* C10 witness: the roots gave "contrib" and "main", and "main" is stored.
C10_Witness ==
  /\ Succeeded
  /\ component = Empty
  /\ Contrib \in Range(rootComponents)
  /\ Main \in Range(rootComponents)
  /\ result.Component = Main

\* What one iteration of the walk on a root adds to the two lists, when a
\* remote repo gives remoteDistribution, and the guesses made from them.
WalkCollects(remoteDistribution) ==
  /\ (pc = "walk" /\ current # <<>>) =>
        LET head == Head(current)
        IN  /\ head.type = "snapshot" =>
                 /\ rootDistributions' = rootDistributions
                 /\ rootComponents' = rootComponents
            /\ head.type = "local" =>
                 /\ rootDistributions' =
                      IF head.DefaultDistribution # Empty
                        THEN Append(rootDistributions, head.DefaultDistribution)
                        ELSE rootDistributions
                 /\ rootComponents' =
                      IF head.DefaultComponent # Empty
                        THEN Append(rootComponents, head.DefaultComponent)
                        ELSE rootComponents
            /\ head.type = "remote" =>
                 /\ rootDistributions' = rootDistributions \o remoteDistribution
                 /\ rootComponents' = rootComponents \o head.Components
  /\ (pc = "walk" /\ pc' = "done") =>
        /\ rootDistributions' = rootDistributions
        /\ rootComponents' = rootComponents
        /\ distribution = Empty =>
              IF Unanimous(rootDistributions)
                THEN /\ result' # Nil
                     /\ AllEqualTo(rootDistributions, result'.Distribution)
                ELSE result' = Nil
        /\ (component = Empty /\ result' # Nil) =>
              IF Unanimous(rootComponents)
                THEN AllEqualTo(rootComponents, result'.Component)
                ELSE result'.Component = Main

\* C24 as stated: a local repo root gives its default distribution and its
\* default component only when they are not empty, a remote repo root gives
\* its distribution and all its components; the guesses are made from the
\* lists so collected.
C24_RemoteGivesDistribution ==
  [][WalkCollects(<<Head(current).Distribution>>)]_vars

\* C24 amended: a remote repo root, too, gives its distribution only when it
\* is not empty (and all its components, empty ones included); the rest as
\* stated.
C24_RemoteGivesNonEmptyDistribution ==
  [][WalkCollects(IF Head(current).Distribution # Empty
                    THEN <<Head(current).Distribution>>
                    ELSE <<>>)]_vars

\* C24 witness: of two remote repo roots one has no distribution; only the
\* other one's was collected, and it was adopted.
C24_Witness ==
  /\ Succeeded
  /\ distribution = Empty
  /\ source.type = "snapshot"
  /\ source.SourceKind = "repo"
  /\ source.SourceIDs = <<1, 2>>
  /\ DOMAIN collectionFactory.remotes = {1, 2}
  /\ collectionFactory.remotes[1].Distribution = Empty
  /\ rootDistributions = <<Wheezy>>
  /\ result.Distribution = Wheezy

-----------------------------------------------------------------------------
(* Properties of the lifecycle                                             *)

\* The archive of the list has been published: Publish has set its
\* Architectures from the packages.
HasBeenPublished(p) == p.Architectures # <<>>

\* The files of a publication are on storage: Release and the index files
\* under <Prefix>/dists/<Distribution>, the pool of the component.
TreeOnStorage(storage, p) ==
  /\ ReleasePath(p) \in DOMAIN storage
  /\ \A f \in IndexFiles(p) : Join(<<BasePath(p), f>>) \in DOMAIN storage
  /\ Join(<<p.Prefix, S("pool"), p.Component>>) \in DOMAIN storage

\* C18: after any sequence of successful Add, Publish and Remove, every
\* archive that is in the registry and has been published has its
\* <Prefix>/dists/<Distribution> tree, with Release and the index files, and
\* its <Prefix>/pool/<Component> subtree on storage.
C18_PublishedTreesKept ==
  \A i \in DOMAIN list :
     HasBeenPublished(list[i]) => TreeOnStorage(publishedStorage, list[i])

\* C26: after a successful Remove that leaves no archive under the
\* target's prefix in the registry, neither <Prefix>/dists nor <Prefix>/pool
\* is on storage, nor anything below them, and no file that Publish created
\* for the target is left, whatever was published under the prefix and in
\* whatever order the archives were removed.
C26_LastRemoveClearsPrefix ==
  [][(/\ call'.op = "Remove"
      /\ call'.err = ""
      /\ \A i \in DOMAIN list' : list'[i].Prefix # call'.repo.Prefix) =>
        /\ \A path \in DOMAIN publishedStorage' :
              /\ ~Under(path, Below(DistsDir(call'.repo)))
              /\ ~Under(path, Below(PoolDir(call'.repo)))
        /\ HasBeenPublished(call'.repo) =>
              /\ ReleasePath(call'.repo) \notin DOMAIN publishedStorage'
              /\ \A f \in IndexFiles(call'.repo) :
                    Join(<<BasePath(call'.repo), f>>)
                       \notin DOMAIN publishedStorage']_vars

-----------------------------------------------------------------------------
(* Properties of RemoveFiles                                               *)

\* C21: RemoveFiles with removePrefix removes <Prefix>/dists and then
\* <Prefix>/pool and nothing else, whatever removePoolComponent is; without
\* removePrefix it removes <Prefix>/dists/<Distribution> and then, only if
\* removePoolComponent, <Prefix>/pool/<Component>.  The first removal that
\* fails ends the call with an error: no later removal is attempted, and
\* what is not below an attempted directory stays on storage.
C21_RemoveFilesRemovals ==
  [][call'.op = "RemoveFiles" =>
       LET X == call'.repo
           planned ==
             IF call'.removePrefix
               THEN <<Below(DistsDir(X)), Below(PoolDir(X))>>
               ELSE <<Below(DistributionDir(X))>>
                    \o IF call'.removePoolComponent
                         THEN <<Below(PoolComponentDir(X))>>
                         ELSE <<>>
           done == [i \in DOMAIN call'.removed |-> Below(call'.removed[i])]
       IN  /\ Len(done) >= 1
           /\ Len(done) <= Len(planned)
           /\ done = SubSeq(planned, 1, Len(done))
           /\ call'.err = "" => done = planned
           /\ \A path \in DOMAIN publishedStorage :
                 (\A k \in DOMAIN done : ~Under(path, done[k]))
                    => path \in DOMAIN publishedStorage'
           /\ call'.err = "" =>
                 \A path \in DOMAIN publishedStorage' :
                    \A k \in DOMAIN planned : ~Under(path, planned[k])]_vars

\* C21 witness: RemoveFiles with both flags set has removed the whole
\* prefix of a published archive, dists and pool and no third directory.
C21_Witness ==
  /\ call.op = "RemoveFiles"
  /\ call.removePrefix
  /\ call.removePoolComponent
  /\ call.err = ""
  /\ Len(call.removed) = 2
  /\ call.repo.Prefix = S("foo")
  /\ publishedStorage # <<>>

-----------------------------------------------------------------------------
(* Properties of Remove and Add on the registry                            *)

\* C22: after a successful Remove(prefix, distribution) the list holds each
\* entry it held before exactly as often as before, but the target once
\* less, wherever the target stood; it is one shorter,
\* ByPrefixDistribution(prefix, distribution) finds nothing, and the
\* target's record is not in the store.
C22_RemoveTakesTargetOut ==
  [][(call'.op = "Remove" /\ call'.err = "") =>
       LET target == list[call'.position]
       IN  /\ call'.repo = target
           /\ Len(list') = Len(list) - 1
           /\ \A x \in Range(list) :
                 Count(list', x) = Count(list, x) - (IF x = target THEN 1
                                                                   ELSE 0)
           /\ Range(list') \subseteq Range(list)
           /\ ByPrefixDistribution(list', call'.prefix,
                                   call'.distribution) = 0
           /\ Key(target) \notin DOMAIN db']_vars

\* C22 witness: the first of two entries was removed, the other one is
\* what the list holds, and one record is left in the store.
C22_Witness ==
  /\ call.op = "Remove"
  /\ call.err = ""
  /\ call.position = 1
  /\ Len(list) = 1
  /\ list[1] # call.repo
  /\ Cardinality(PersistedKeys) = 1

\* C25: the key is injective on the identity: two entries of the registry
\* with the same Key() have the same Prefix and the same Distribution, and a
\* successful Add leaves the record of every other entry in the store as it
\* was.
C25_KeyInjective ==
  [][/\ \A i, j \in DOMAIN list' :
           Key(list'[i]) = Key(list'[j]) =>
              /\ list'[i].Prefix = list'[j].Prefix
              /\ list'[i].Distribution = list'[j].Distribution
     /\ (call'.op = "Add" /\ call'.err = "") =>
           \A i \in DOMAIN list :
              /\ Key(list[i]) \in DOMAIN db => Key(list[i]) \in DOMAIN db'
              /\ Key(list[i]) \in DOMAIN db =>
                    db'[Key(list[i])] = db[Key(list[i])]]_vars

=============================================================================
